---------------------------- MODULE Spec2Model ----------------------------
(***************************************************************************)
(* Model of the disk-to-qcow2 conversion pipeline (utils.py,               *)
(* create_vm_from_disk) together with the command-line front end that      *)
(* drives it (cli.py, P2VConverterCLI).                                    *)
(*                                                                         *)
(* One call of create_vm_from_disk is a sequential program; its position   *)
(* is pc[c].  The two external tools (dd, qemu-img) are separate operating *)
(* system processes that run, write files and exit on their own, so they   *)
(* are environment actions.  The stop flag is written by another context   *)
(* (a GUI thread, a signal handler) at any time.                           *)
(*                                                                         *)
(* Failures of the environment that are modelled: os.makedirs raising, a   *)
(* tool that cannot be launched, a tool exiting nonzero, a tool reporting  *)
(* success without a usable output file, and a progress callback that      *)
(* raises.  os.remove of a file that exists is taken to succeed.           *)
(***************************************************************************)
EXTENDS Integers, Sequences, FiniteSets, TLC

VARIABLES
    pc,            \* pc[c]: position of call c inside create_vm_from_disk
    result,        \* result[c]: how the call ended
    err,           \* err[c]: the exception that ended a failed call
    retval,        \* retval[c]: the path a normal return hands back
    procSt,        \* procSt[c][t]: state of the external process of tool t
    procRc,        \* procRc[c][t]: its exit status (process.returncode)
    termSent,      \* termSent[c][t]: process.terminate() was called
    raw,           \* does {vm_name}_temp.img exist in the output directory
    qcow,          \* what {vm_name}.qcow2 is in the output directory
    stop,          \* stop[c]: value the stop_flag() of call c returns
    progress,      \* progress[c]: percentages delivered to progress_callback
    ticks,         \* ticks[c]: poll ticks of the current monitored phase
    stopTool,      \* history: tool alive when the stop flag became true
    stopAt,        \* history: where the call and qemu-img were at that moment
    cbSinceStop,   \* history: callbacks delivered since the flag became true
    rawRemoved,    \* history: step 3 (os.remove of the raw image) was done
    verified,      \* history: step 4 found the final artifact to exist
    cliPc,         \* position of the command-line front end
    conversionStarted, \* P2VConverterCLI.conversion_started
    cliReport,     \* what convert_disk told the user
    gui,           \* the graphical front end (P2VConverterGUI)
    run,           \* one call of run_command_with_progress
    flow,          \* a front end on its way to the conversion
    fn,            \* one application of a helper function of utils.py
    pipeSt         \* pipeSt[c][t]: the stdout/stderr pipe of the process of t

vars == <<pc, result, err, retval, procSt, procRc, termSent, raw, qcow, stop,
          progress, ticks, stopTool, stopAt, cbSinceStop, rawRemoved,
          verified, cliPc, conversionStarted, cliReport, gui, run, flow, fn,
          pipeSt>>

pipeVars == <<pc, result, err, retval, procSt, procRc, termSent, raw, qcow,
              progress, ticks, pipeSt>>
cliVars == <<cliPc, conversionStarted, cliReport>>
histVars == <<stopTool, stopAt, cbSinceStop, rawRemoved, verified>>
frontVars == <<gui, run, flow, fn>>
auxVars == <<frontVars, pipeSt>>

-----------------------------------------------------------------------------
(* Bounds *)

\* Poll ticks (loop iterations that reach the callback) modelled per phase.
MaxTicks == 2

\* Capacity of a pipe, in units of tool output, and the most a tool writes.
PipeCap == 2
MaxOutput == PipeCap + 1

-----------------------------------------------------------------------------
(* Constants of the program *)

\* Calls of create_vm_from_disk that name the same output directory and the
\* same vm_name, and so the same two paths.
Calls == {"c1", "c2"}

\* The call a single front end makes.
Main == "c1"

Tools == {"dd", "qemu"}

\* Progress checkpoints handed to progress_callback.
PctStart == 10
PctCopy == 50
PctConvert == 70
PctCompress == 85
PctCleanup == 95
PctDone == 100

\* Exit statuses an external tool can end with on its own: success, failure.
\* RcTerm is the status subprocess reports for a process killed by SIGTERM.
RcOk == 0
ExitCodes == {RcOk, 1}
RcTerm == 0 - 15
RcInt == 0 - 2

\* States of the final artifact path: not there, a file that was there
\* before the call, a file being written, an empty file, a complete image.
QcowStates == {"absent", "pre", "partial", "empty", "data"}

\* Artifacts of finalPath that a conversion wrote.
Produced == {"partial", "empty", "data"}

Exists(q) == q # "absent"

-----------------------------------------------------------------------------
(* Helpers for the exits of create_vm_from_disk *)

\* Exceptions: the class, and for subprocess.CalledProcessError the command
\* and the exit status it carries.
NoErr == [class |-> "none", cmd |-> "none", rc |-> RcOk]
Exc(class) == [class |-> class, cmd |-> "none", rc |-> RcOk]
CalledProcessError(rc, cmd) ==
    [class |-> "CalledProcessError", cmd |-> cmd, rc |-> rc]

\* except KeyboardInterrupt: log, re-raise.
RaiseCancelled(c) ==
    /\ pc' = [pc EXCEPT ![c] = "end"]
    /\ result' = [result EXCEPT ![c] = "cancelled"]
    /\ err' = [err EXCEPT ![c] = Exc("KeyboardInterrupt")]
    /\ retval' = retval

\* except Exception: log, re-raise.
RaiseFailed(c, e) ==
    /\ pc' = [pc EXCEPT ![c] = "end"]
    /\ result' = [result EXCEPT ![c] = "failed"]
    /\ err' = [err EXCEPT ![c] = e]
    /\ retval' = retval

Goto(c, l) ==
    /\ pc' = [pc EXCEPT ![c] = l]
    /\ UNCHANGED <<result, err, retval>>

\* The main thread of the command-line front end runs both the pipeline and
\* the signal handler: while the handler runs, the interrupted frame is
\* suspended.
Running(c) == cliPc # "handler"

\* progress_callback(p, ...): the caller's callback either delivers the
\* report or raises.
Deliver(c, p) ==
    /\ progress' = [progress EXCEPT ![c] = Append(@, p)]
    /\ cbSinceStop' = [cbSinceStop EXCEPT ![c] = IF stop[c] THEN @ + 1 ELSE @]

-----------------------------------------------------------------------------
(* Initial state *)

\* Where the call is, and what the re-encode process is, when the flag is set.
NoStop == [pc |-> "none", qemu |-> "none"]
StopPoint(c) == [pc |-> pc[c], qemu |-> procSt[c]["qemu"]]

InitCall ==
    /\ pc = [c \in Calls |-> "idle"]
    /\ result = [c \in Calls |-> "none"]
    /\ err = [c \in Calls |-> NoErr]
    /\ retval = [c \in Calls |-> "none"]
    /\ procSt = [c \in Calls |-> [t \in Tools |-> "none"]]
    /\ procRc = [c \in Calls |-> [t \in Tools |-> RcOk]]
    /\ termSent = [c \in Calls |-> [t \in Tools |-> FALSE]]
    /\ raw = FALSE
    /\ qcow \in {"absent", "pre"}
    /\ stop = [c \in Calls |-> FALSE]
    /\ progress = [c \in Calls |-> << >>]
    /\ ticks = [c \in Calls |-> 0]
    /\ stopTool = [c \in Calls |-> "none"]
    /\ stopAt = [c \in Calls |-> NoStop]
    /\ cbSinceStop = [c \in Calls |-> 0]
    /\ rawRemoved = [c \in Calls |-> FALSE]
    /\ verified = [c \in Calls |-> FALSE]
    /\ conversionStarted = FALSE
    /\ cliReport = "none"

\* The parts of the model a specification does not exercise.
GuiOff == [pc |-> "off", operationRunning |-> FALSE, report |-> "none",
           worker |-> "none", convertEnabled |-> FALSE, exit |-> "no"]
RunOff == [pc |-> "off"]
FlowOff == [pc |-> "off"]
FnOff == [op |-> "off"]

\* A tool that writes nothing to its pipes.
PipeOff == [c \in Calls |-> [t \in Tools |-> [todo |-> 0, buf |-> 0]]]

\* create_vm_from_disk is called directly; no front end.
Init ==
    /\ InitCall
    /\ cliPc = "off"
    /\ gui = GuiOff
    /\ run = RunOff
    /\ flow = FlowOff
    /\ fn = FnOff
    /\ pipeSt = PipeOff

-----------------------------------------------------------------------------
(* The caller and the context that owns the stop flag *)

\* A caller invokes create_vm_from_disk.
Call(c) ==
    /\ pc[c] = "idle"
    /\ cliPc = "off"
    /\ Goto(c, "mkdir")
    /\ UNCHANGED <<procSt, procRc, termSent, raw, qcow, stop, progress, ticks>>
    /\ UNCHANGED <<histVars, cliVars, auxVars>>

AliveTool(c) ==
    IF procSt[c]["dd"] = "alive" THEN "dd"
    ELSE IF procSt[c]["qemu"] = "alive" THEN "qemu"
    ELSE "none"

\* The owner of the flag (GUI stop_operation, a signal handler) makes
\* stop_flag() true; it stays true.
RequestStop(c) ==
    /\ cliPc = "off"
    /\ pc[c] # "end"
    /\ ~stop[c]
    /\ stop' = [stop EXCEPT ![c] = TRUE]
    /\ stopTool' = [stopTool EXCEPT ![c] = AliveTool(c)]
    /\ stopAt' = [stopAt EXCEPT ![c] = StopPoint(c)]
    /\ UNCHANGED <<pipeVars, cbSinceStop, rawRemoved, verified, cliVars, auxVars>>

-----------------------------------------------------------------------------
(* The external tools (operating-system processes) *)

\* dd opens and writes of={raw_image_path} while it runs.
DdWrite(c) ==
    /\ procSt[c]["dd"] = "alive"
    /\ ~raw
    /\ raw' = TRUE
    /\ UNCHANGED <<pc, result, err, retval, procSt, procRc, termSent, qcow,
                   stop, progress, ticks, histVars, cliVars, auxVars>>

\* A tool writes a unit of its status output (dd status=progress on
\* stderr, qemu-img -p on stdout) into the pipe Popen gave it.  The write
\* blocks while the pipe is full; nothing reads the pipe before
\* process.communicate().
ToolOutput(c, t) ==
    /\ procSt[c][t] = "alive"
    /\ pipeSt[c][t].todo > 0
    /\ pipeSt[c][t].buf < PipeCap
    /\ pipeSt' = [pipeSt EXCEPT ![c][t] = [todo |-> @.todo - 1,
                                           buf |-> @.buf + 1]]
    /\ UNCHANGED <<pc, result, err, retval, procSt, procRc, termSent, raw,
                   qcow, stop, progress, ticks, histVars, cliVars, frontVars>>

\* The tool is blocked in a write to a full pipe.
Stuck(c, t) ==
    /\ pipeSt[c][t].todo > 0
    /\ pipeSt[c][t].buf = PipeCap

\* dd exits on its own, once it has written its output: status 0 only after
\* it wrote the image.
DdExit(c) ==
    /\ procSt[c]["dd"] = "alive"
    /\ pipeSt[c]["dd"].todo = 0
    /\ \E rc \in ExitCodes :
        /\ rc = RcOk => raw
        /\ procRc' = [procRc EXCEPT ![c]["dd"] = rc]
    /\ procSt' = [procSt EXCEPT ![c]["dd"] = "exited"]
    /\ UNCHANGED <<pc, result, err, retval, termSent, raw, qcow, stop,
                   progress, ticks, histVars, cliVars, auxVars>>

\* qemu-img creates (or truncates) {qcow2_path} and writes into it.
QemuWrite(c) ==
    /\ procSt[c]["qemu"] = "alive"
    /\ qcow # "partial"
    /\ qcow' = "partial"
    /\ UNCHANGED <<pc, result, err, retval, procSt, procRc, termSent, raw,
                   stop, progress, ticks, histVars, cliVars, auxVars>>

\* qemu-img exits on its own.  Status 0 is what the tool reports; what it
\* left at {qcow2_path} is a complete image, an empty file, or (when it never
\* opened the path) whatever was there before.
QemuExit(c) ==
    /\ procSt[c]["qemu"] = "alive"
    /\ pipeSt[c]["qemu"].todo = 0
    /\ \E rc \in ExitCodes :
        /\ procRc' = [procRc EXCEPT ![c]["qemu"] = rc]
        /\ IF rc = RcOk
           THEN qcow' \in {"data", "empty"} \cup ({qcow} \ {"partial"})
           ELSE qcow' = qcow
    /\ procSt' = [procSt EXCEPT ![c]["qemu"] = "exited"]
    /\ UNCHANGED <<pc, result, err, retval, termSent, raw, stop,
                   progress, ticks, histVars, cliVars, auxVars>>

\* A process that was sent SIGTERM by terminate() dies of it.  A Ctrl+C on
\* the terminal is delivered to the whole foreground process group, so the
\* tool may die of the SIGINT that the front end's handler is serving.
Killed(c, t) ==
    /\ procSt[c][t] = "alive"
    /\ \/ /\ termSent[c][t]
          /\ procRc' = [procRc EXCEPT ![c][t] = RcTerm]
       \/ /\ c = Main
          /\ cliPc \in {"handler", "exited"}
          /\ procRc' = [procRc EXCEPT ![c][t] = RcInt]
    /\ procSt' = [procSt EXCEPT ![c][t] = "exited"]
    /\ UNCHANGED <<pc, result, err, retval, termSent, raw, qcow, stop,
                   progress, ticks, histVars, cliVars, auxVars>>

-----------------------------------------------------------------------------
(* create_vm_from_disk, duplication phase *)

\* os.makedirs(output_path, exist_ok=True); the two paths are derived.
Start(c) ==
    /\ pc[c] = "mkdir"
    /\ Running(c)
    /\ \E ok \in BOOLEAN :
        IF ok THEN Goto(c, "cb10") ELSE RaiseFailed(c, Exc("OSError"))
    /\ UNCHANGED <<procSt, procRc, termSent, raw, qcow, stop, progress, ticks>>
    /\ UNCHANGED <<histVars, cliVars, auxVars>>

\* The callback of a poll loop.  Ticks are counted and reports recorded up
\* to MaxTicks; the loop goes on past that only around a tool that is stuck,
\* and then every further iteration repeats the last one.
LoopCallback(c, p, next) ==
    IF ticks[c] < MaxTicks
    THEN /\ \E ok \in BOOLEAN :
              IF ok
              THEN /\ Deliver(c, p)
                   /\ Goto(c, next)
              ELSE /\ RaiseFailed(c, Exc("CallbackError"))
                   /\ UNCHANGED <<progress, cbSinceStop>>
         /\ ticks' = [ticks EXCEPT ![c] = @ + 1]
    ELSE /\ \E ok \in BOOLEAN :
              IF ok
              THEN Goto(c, next)
              ELSE RaiseFailed(c, Exc("CallbackError"))
         /\ UNCHANGED <<progress, cbSinceStop, ticks>>

\* A progress_callback(p, ...) call site: deliver and go on to `next`, or
\* the callback raises and the exception leaves create_vm_from_disk.
Callback(c, p, next) ==
    \E ok \in BOOLEAN :
        IF ok
        THEN /\ Deliver(c, p)
             /\ Goto(c, next)
        ELSE /\ RaiseFailed(c, Exc("CallbackError"))
             /\ UNCHANGED <<progress, cbSinceStop>>

\* progress_callback(10, "Creating raw disk image...")
ReportStart(c) ==
    /\ pc[c] = "cb10"
    /\ Running(c)
    /\ Callback(c, PctStart, "popen_dd")
    /\ UNCHANGED <<procSt, procRc, termSent, raw, qcow, stop, ticks>>
    /\ UNCHANGED <<stopTool, stopAt, rawRemoved, verified, cliVars, auxVars>>

\* process = subprocess.Popen(dd_cmd, ...): raises FileNotFoundError when dd
\* cannot be launched.
LaunchDd(c) ==
    /\ pc[c] = "popen_dd"
    /\ Running(c)
    /\ \E ok \in BOOLEAN :
        IF ok
        THEN /\ procSt' = [procSt EXCEPT ![c]["dd"] = "alive"]
             /\ Goto(c, "dd_poll")
        ELSE /\ procSt' = procSt
             /\ RaiseFailed(c, Exc("FileNotFoundError"))
    /\ ticks' = [ticks EXCEPT ![c] = 0]
    /\ UNCHANGED <<procRc, termSent, raw, qcow, stop, progress>>
    /\ UNCHANGED <<histVars, cliVars, auxVars>>

\* while process.poll() is None:
DdPoll(c) ==
    /\ pc[c] = "dd_poll"
    /\ Running(c)
    /\ IF procSt[c]["dd"] = "alive"
       THEN /\ ticks[c] < MaxTicks \/ Stuck(c, "dd")
            /\ Goto(c, "dd_stop")
       ELSE Goto(c, "dd_comm")
    /\ UNCHANGED <<procSt, procRc, termSent, raw, qcow, stop, progress, ticks>>
    /\ UNCHANGED <<histVars, cliVars, auxVars>>

\* Variant: the temp file is removed right after terminate(), without
\* process.wait().
DdStopCheck_NoWait(c) ==
    /\ pc[c] = "dd_stop"
    /\ Running(c)
    /\ IF stop[c]
       THEN /\ termSent' = [termSent EXCEPT ![c]["dd"] = TRUE]
            /\ Goto(c, "dd_cancel")
       ELSE /\ termSent' = termSent
            /\ Goto(c, "dd_cb50")
    /\ UNCHANGED <<procSt, procRc, raw, qcow, stop, progress, ticks>>
    /\ UNCHANGED <<histVars, cliVars, auxVars>>

\* if stop_flag and stop_flag(): process.terminate()
DdStopCheck(c) ==
    /\ pc[c] = "dd_stop"
    /\ Running(c)
    /\ IF stop[c]
       THEN /\ termSent' = [termSent EXCEPT ![c]["dd"] = TRUE]
            /\ Goto(c, "dd_wait")
       ELSE /\ termSent' = termSent
            /\ Goto(c, "dd_cb50")
    /\ UNCHANGED <<procSt, procRc, raw, qcow, stop, progress, ticks>>
    /\ UNCHANGED <<histVars, cliVars, auxVars>>

\* process.wait(): returns once the process has exited.
DdWait(c) ==
    /\ pc[c] = "dd_wait"
    /\ Running(c)
    /\ procSt[c]["dd"] = "exited"
    /\ Goto(c, "dd_cancel")
    /\ UNCHANGED <<procSt, procRc, termSent, raw, qcow, stop, progress, ticks>>
    /\ UNCHANGED <<histVars, cliVars, auxVars>>

\* Variant: the raw image is left alone while another call is under way.
DdCancelCleanup_Exclusive(c) ==
    /\ pc[c] = "dd_cancel"
    /\ Running(c)
    /\ raw' = IF \E d \in Calls \ {c} : pc[d] \notin {"idle", "end"}
              THEN raw
              ELSE FALSE
    /\ RaiseCancelled(c)
    /\ UNCHANGED <<procSt, procRc, termSent, qcow, stop, progress, ticks>>
    /\ UNCHANGED <<histVars, cliVars, auxVars>>

\* if os.path.exists(raw_image_path): os.remove(raw_image_path)
\* raise KeyboardInterrupt("Operation cancelled by user")
DdCancelCleanup(c) ==
    /\ pc[c] = "dd_cancel"
    /\ Running(c)
    /\ raw' = FALSE
    /\ RaiseCancelled(c)
    /\ UNCHANGED <<procSt, procRc, termSent, qcow, stop, progress, ticks>>
    /\ UNCHANGED <<histVars, cliVars, auxVars>>

\* progress_callback(50, "Copying disk data..."); time.sleep(2)
DdProgress(c) ==
    /\ pc[c] = "dd_cb50"
    /\ Running(c)
    /\ LoopCallback(c, PctCopy, "dd_poll")
    /\ UNCHANGED <<procSt, procRc, termSent, raw, qcow, stop>>
    /\ UNCHANGED <<stopTool, stopAt, rawRemoved, verified, cliVars, auxVars>>

\* Variant: the failure branch raises without removing the raw image.
DdCommunicate_NoCleanup(c) ==
    /\ pc[c] = "dd_comm"
    /\ Running(c)
    /\ procSt[c]["dd"] = "exited"
    /\ IF procRc[c]["dd"] # RcOk
       THEN RaiseFailed(c, CalledProcessError(procRc[c]["dd"], "dd_cmd"))
       ELSE Goto(c, "cb70")
    /\ UNCHANGED <<procSt, procRc, termSent, raw, qcow, stop, progress, ticks>>
    /\ UNCHANGED <<histVars, cliVars, auxVars>>

\* Variant: the exit status of dd is not looked at.
DdCommunicate_IgnoreStatus(c) ==
    /\ pc[c] = "dd_comm"
    /\ Running(c)
    /\ procSt[c]["dd"] = "exited"
    /\ Goto(c, "cb70")
    /\ UNCHANGED <<procSt, procRc, termSent, raw, qcow, stop, progress, ticks>>
    /\ UNCHANGED <<histVars, cliVars, auxVars>>

\* stdout, stderr = process.communicate(); if process.returncode != 0:
\* remove the raw image if it exists and raise CalledProcessError(dd_cmd).
DdCommunicate(c) ==
    /\ pc[c] = "dd_comm"
    /\ Running(c)
    /\ procSt[c]["dd"] = "exited"
    /\ IF procRc[c]["dd"] # RcOk
       THEN /\ raw' = FALSE
            /\ RaiseFailed(c, CalledProcessError(procRc[c]["dd"], "dd_cmd"))
       ELSE /\ raw' = raw
            /\ Goto(c, "cb70")
    /\ pipeSt' = [pipeSt EXCEPT ![c]["dd"].buf = 0]
    /\ UNCHANGED <<procSt, procRc, termSent, qcow, stop, progress, ticks>>
    /\ UNCHANGED <<histVars, cliVars, frontVars>>

-----------------------------------------------------------------------------
(* create_vm_from_disk, re-encode phase *)

\* progress_callback(70, "Converting to qcow2 format...")
ReportConvert(c) ==
    /\ pc[c] = "cb70"
    /\ Running(c)
    /\ Callback(c, PctConvert, "popen_qemu")
    /\ UNCHANGED <<procSt, procRc, termSent, raw, qcow, stop, ticks>>
    /\ UNCHANGED <<stopTool, stopAt, rawRemoved, verified, cliVars, auxVars>>

\* process = subprocess.Popen(qemu_cmd, ...): raises FileNotFoundError when
\* qemu-img cannot be launched.
LaunchQemu(c) ==
    /\ pc[c] = "popen_qemu"
    /\ Running(c)
    /\ \E ok \in BOOLEAN :
        IF ok
        THEN /\ procSt' = [procSt EXCEPT ![c]["qemu"] = "alive"]
             /\ Goto(c, "q_poll")
        ELSE /\ procSt' = procSt
             /\ RaiseFailed(c, Exc("FileNotFoundError"))
    /\ ticks' = [ticks EXCEPT ![c] = 0]
    /\ UNCHANGED <<procRc, termSent, raw, qcow, stop, progress>>
    /\ UNCHANGED <<histVars, cliVars, auxVars>>

\* while process.poll() is None:
QemuPoll(c) ==
    /\ pc[c] = "q_poll"
    /\ Running(c)
    /\ IF procSt[c]["qemu"] = "alive"
       THEN /\ ticks[c] < MaxTicks \/ Stuck(c, "qemu")
            /\ Goto(c, "q_stop")
       ELSE Goto(c, "q_comm")
    /\ UNCHANGED <<procSt, procRc, termSent, raw, qcow, stop, progress, ticks>>
    /\ UNCHANGED <<histVars, cliVars, auxVars>>

\* Variant: the re-encode loop has no stop check.
QemuStopCheck_Ignore(c) ==
    /\ pc[c] = "q_stop"
    /\ Running(c)
    /\ Goto(c, "q_cb85")
    /\ UNCHANGED <<procSt, procRc, termSent, raw, qcow, stop, progress, ticks>>
    /\ UNCHANGED <<histVars, cliVars, auxVars>>

\* if stop_flag and stop_flag(): process.terminate()
QemuStopCheck(c) ==
    /\ pc[c] = "q_stop"
    /\ Running(c)
    /\ IF stop[c]
       THEN /\ termSent' = [termSent EXCEPT ![c]["qemu"] = TRUE]
            /\ Goto(c, "q_wait")
       ELSE /\ termSent' = termSent
            /\ Goto(c, "q_cb85")
    /\ UNCHANGED <<procSt, procRc, raw, qcow, stop, progress, ticks>>
    /\ UNCHANGED <<histVars, cliVars, auxVars>>

\* process.wait()
QemuWait(c) ==
    /\ pc[c] = "q_wait"
    /\ Running(c)
    /\ procSt[c]["qemu"] = "exited"
    /\ Goto(c, "q_cancel")
    /\ UNCHANGED <<procSt, procRc, termSent, raw, qcow, stop, progress, ticks>>
    /\ UNCHANGED <<histVars, cliVars, auxVars>>

\* Variant: the cancel branch removes the raw image only.
QemuCancelCleanup_RawOnly(c) ==
    /\ pc[c] = "q_cancel"
    /\ Running(c)
    /\ raw' = FALSE
    /\ qcow' = qcow
    /\ RaiseCancelled(c)
    /\ UNCHANGED <<procSt, procRc, termSent, stop, progress, ticks>>
    /\ UNCHANGED <<histVars, cliVars, auxVars>>

\* for temp_file in [raw_image_path, qcow2_path]: remove it if it exists
\* raise KeyboardInterrupt("Operation cancelled by user")
QemuCancelCleanup(c) ==
    /\ pc[c] = "q_cancel"
    /\ Running(c)
    /\ raw' = FALSE
    /\ qcow' = "absent"
    /\ RaiseCancelled(c)
    /\ UNCHANGED <<procSt, procRc, termSent, stop, progress, ticks>>
    /\ UNCHANGED <<histVars, cliVars, auxVars>>

\* Variant: the re-encode loop reports the duplication loop's percentage.
QemuProgress_Copy(c) ==
    /\ pc[c] = "q_cb85"
    /\ Running(c)
    /\ Callback(c, PctCopy, "q_poll")
    /\ ticks' = [ticks EXCEPT ![c] = @ + 1]
    /\ UNCHANGED <<procSt, procRc, termSent, raw, qcow, stop>>
    /\ UNCHANGED <<stopTool, stopAt, rawRemoved, verified, cliVars, auxVars>>

\* progress_callback(85, "Compressing virtual machine..."); time.sleep(1)
QemuProgress(c) ==
    /\ pc[c] = "q_cb85"
    /\ Running(c)
    /\ LoopCallback(c, PctCompress, "q_poll")
    /\ UNCHANGED <<procSt, procRc, termSent, raw, qcow, stop>>
    /\ UNCHANGED <<stopTool, stopAt, rawRemoved, verified, cliVars, auxVars>>

\* Variant: the stop flag is consulted once more after the loop has ended.
QemuCommunicate_StopAware(c) ==
    /\ pc[c] = "q_comm"
    /\ Running(c)
    /\ procSt[c]["qemu"] = "exited"
    /\ IF stop[c]
       THEN /\ raw' = FALSE
            /\ qcow' = "absent"
            /\ RaiseCancelled(c)
       ELSE IF procRc[c]["qemu"] # RcOk
       THEN /\ raw' = FALSE
            /\ qcow' = "absent"
            /\ RaiseFailed(c, CalledProcessError(procRc[c]["qemu"], "qemu_cmd"))
       ELSE /\ UNCHANGED <<raw, qcow>>
            /\ Goto(c, "cb95")
    /\ UNCHANGED <<procSt, procRc, termSent, stop, progress, ticks>>
    /\ UNCHANGED <<histVars, cliVars, auxVars>>

\* stdout, stderr = process.communicate(); if process.returncode != 0:
\* remove both files if they exist and raise CalledProcessError(qemu_cmd).
QemuCommunicate(c) ==
    /\ pc[c] = "q_comm"
    /\ Running(c)
    /\ procSt[c]["qemu"] = "exited"
    /\ IF procRc[c]["qemu"] # RcOk
       THEN /\ raw' = FALSE
            /\ qcow' = "absent"
            /\ RaiseFailed(c, CalledProcessError(procRc[c]["qemu"], "qemu_cmd"))
       ELSE /\ UNCHANGED <<raw, qcow>>
            /\ Goto(c, "cb95")
    /\ pipeSt' = [pipeSt EXCEPT ![c]["qemu"].buf = 0]
    /\ UNCHANGED <<procSt, procRc, termSent, stop, progress, ticks>>
    /\ UNCHANGED <<histVars, cliVars, frontVars>>

-----------------------------------------------------------------------------
(* create_vm_from_disk, steps 3 and 4 *)

\* progress_callback(95, "Cleaning up...")
ReportCleanup(c) ==
    /\ pc[c] = "cb95"
    /\ Running(c)
    /\ Callback(c, PctCleanup, "rm_raw")
    /\ UNCHANGED <<procSt, procRc, termSent, raw, qcow, stop, ticks>>
    /\ UNCHANGED <<stopTool, stopAt, rawRemoved, verified, cliVars, auxVars>>

\* Variant: step 3 is skipped.
RemoveRaw_Skip(c) ==
    /\ pc[c] = "rm_raw"
    /\ Running(c)
    /\ Goto(c, "verify")
    /\ UNCHANGED <<procSt, procRc, termSent, raw, qcow, stop, progress, ticks>>
    /\ UNCHANGED <<histVars, cliVars, auxVars>>

\* os.remove(raw_image_path): raises FileNotFoundError when it is not there.
RemoveRaw(c) ==
    /\ pc[c] = "rm_raw"
    /\ Running(c)
    /\ IF raw
       THEN /\ raw' = FALSE
            /\ rawRemoved' = [rawRemoved EXCEPT ![c] = TRUE]
            /\ Goto(c, "verify")
       ELSE /\ UNCHANGED <<raw, rawRemoved>>
            /\ RaiseFailed(c, Exc("FileNotFoundError"))
    /\ UNCHANGED <<procSt, procRc, termSent, qcow, stop, progress, ticks>>
    /\ UNCHANGED <<stopTool, stopAt, cbSinceStop, verified, cliVars, auxVars>>

\* Variant: the exit status of qemu-img is trusted, the path is not checked.
Verify_Trusting(c) ==
    /\ pc[c] = "verify"
    /\ Running(c)
    /\ verified' = [verified EXCEPT ![c] = TRUE]
    /\ Goto(c, "cb100")
    /\ UNCHANGED <<procSt, procRc, termSent, raw, qcow, stop, progress, ticks>>
    /\ UNCHANGED <<stopTool, stopAt, cbSinceStop, rawRemoved, cliVars, auxVars>>

\* if not os.path.exists(qcow2_path): raise Exception(...)
\* final_size = os.path.getsize(qcow2_path)   (logged, not compared)
Verify(c) ==
    /\ pc[c] = "verify"
    /\ Running(c)
    /\ IF Exists(qcow)
       THEN /\ verified' = [verified EXCEPT ![c] = TRUE]
            /\ Goto(c, "cb100")
       ELSE /\ verified' = verified
            /\ RaiseFailed(c, Exc("Exception"))
    /\ UNCHANGED <<procSt, procRc, termSent, raw, qcow, stop, progress, ticks>>
    /\ UNCHANGED <<stopTool, stopAt, cbSinceStop, rawRemoved, cliVars, auxVars>>

\* progress_callback(100, "Conversion completed successfully!")
ReportDone(c) ==
    /\ pc[c] = "cb100"
    /\ Running(c)
    /\ Callback(c, PctDone, "return")
    /\ UNCHANGED <<procSt, procRc, termSent, raw, qcow, stop, ticks>>
    /\ UNCHANGED <<stopTool, stopAt, rawRemoved, verified, cliVars, auxVars>>

\* return qcow2_path
Return(c) ==
    /\ pc[c] = "return"
    /\ Running(c)
    /\ pc' = [pc EXCEPT ![c] = "end"]
    /\ result' = [result EXCEPT ![c] = "returned"]
    /\ retval' = [retval EXCEPT ![c] = "qcow2_path"]
    /\ UNCHANGED <<err, procSt, procRc, termSent, raw, qcow, stop, progress,
                   ticks, histVars, cliVars, auxVars>>

-----------------------------------------------------------------------------
(* Specification of one call made by an arbitrary caller *)

Pipeline(c) ==
    \/ Start(c)
    \/ ReportStart(c)
    \/ LaunchDd(c)
    \/ DdPoll(c)
    \/ DdStopCheck(c)
    \/ DdWait(c)
    \/ DdCancelCleanup(c)
    \/ DdProgress(c)
    \/ DdCommunicate(c)
    \/ ReportConvert(c)
    \/ LaunchQemu(c)
    \/ QemuPoll(c)
    \/ QemuStopCheck(c)
    \/ QemuWait(c)
    \/ QemuCancelCleanup(c)
    \/ QemuProgress(c)
    \/ QemuCommunicate(c)
    \/ ReportCleanup(c)
    \/ RemoveRaw(c)
    \/ Verify(c)
    \/ ReportDone(c)
    \/ Return(c)

Environment(c) ==
    \/ DdWrite(c)
    \/ DdExit(c)
    \/ QemuWrite(c)
    \/ QemuExit(c)
    \/ \E t \in Tools : Killed(c, t)

Next ==
    \/ Call(Main)
    \/ RequestStop(Main)
    \/ Pipeline(Main)
    \/ Environment(Main)

Spec == Init /\ [][Next]_vars

-----------------------------------------------------------------------------
(* The command-line front end: P2VConverterCLI *)

\* P2VConverterCLI.__init__ has run and run_interactive / run_batch is about
\* to call convert_disk.
InitCLI ==
    /\ InitCall
    /\ cliPc = "ready"
    /\ gui = GuiOff
    /\ run = RunOff
    /\ flow = FlowOff
    /\ fn = FnOff
    /\ pipeSt = PipeOff

\* convert_disk: self.conversion_started = True, then
\* create_vm_from_disk(..., self.progress_callback, self.stop_check).
ConvertDisk ==
    /\ cliPc = "ready"
    /\ pc[Main] = "idle"
    /\ cliPc' = "converting"
    /\ conversionStarted' = TRUE
    /\ Goto(Main, "mkdir")
    /\ UNCHANGED <<procSt, procRc, termSent, raw, qcow, stop, progress, ticks,
                   histVars, cliReport, auxVars>>

\* One step of create_vm_from_disk on the main thread.
CliPipelineStep ==
    /\ cliPc = "converting"
    /\ Pipeline(Main)

\* SIGINT or SIGTERM arrives; _signal_handler runs on the main thread:
\* self.stop_requested = True; if self.conversion_started: time.sleep(2)
SignalHandler ==
    /\ cliPc = "converting"
    /\ cliPc' = "handler"
    /\ stop' = [stop EXCEPT ![Main] = TRUE]
    /\ stopTool' = [stopTool EXCEPT ![Main] = AliveTool(Main)]
    /\ stopAt' = [stopAt EXCEPT ![Main] = StopPoint(Main)]
    /\ UNCHANGED <<pipeVars, cbSinceStop, rawRemoved, verified, conversionStarted,
                   cliReport, auxVars>>

\* _signal_handler: sys.exit(130).  SystemExit is raised in the interrupted
\* frame; it is neither a KeyboardInterrupt nor an Exception, so no handler
\* of create_vm_from_disk or convert_disk catches it; convert_disk's finally
\* resets conversion_started and the interpreter exits.
SignalExit ==
    /\ cliPc = "handler"
    /\ cliPc' = "exited"
    /\ conversionStarted' = FALSE
    /\ IF pc[Main] # "end"
       THEN /\ pc' = [pc EXCEPT ![Main] = "end"]
            /\ result' = [result EXCEPT ![Main] = "aborted"]
            /\ err' = [err EXCEPT ![Main] = Exc("SystemExit")]
       ELSE UNCHANGED <<pc, result, err>>
    /\ UNCHANGED <<retval, procSt, procRc, termSent, raw, qcow, stop, progress,
                   ticks, histVars, cliReport, auxVars>>

\* Exceptions of create_vm_from_disk that convert_disk has a handler for:
\* FileNotFoundError, PermissionError, OSError, ValueError, RuntimeError,
\* MemoryError.  The front end's own progress_callback prints and appends to
\* a list; what it can raise (an encoding or I/O error of print) is among
\* them.  subprocess.CalledProcessError and a plain Exception are not.
CliCaught == {"FileNotFoundError", "OSError", "CallbackError"}

\* convert_disk after create_vm_from_disk ended: the success branch, the
\* except clauses, and finally: self.conversion_started = False.
ConvertReport ==
    /\ cliPc = "converting"
    /\ pc[Main] = "end"
    /\ conversionStarted' = FALSE
    /\ \/ /\ result[Main] = "returned"
          /\ cliReport' = IF ~stop[Main] THEN "completed" ELSE "cancelled"
          /\ cliPc' = "returned"
       \/ /\ result[Main] = "cancelled"
          /\ cliReport' = "cancelled"
          /\ cliPc' = "returned"
       \/ /\ result[Main] = "failed"
          /\ err[Main].class \in CliCaught
          /\ cliReport' = "error"
          /\ cliPc' = "returned"
       \/ /\ result[Main] = "failed"
          /\ err[Main].class \notin CliCaught
          /\ cliReport' = "none"
          /\ cliPc' = "raised"
    /\ UNCHANGED <<pipeVars, stop, histVars, auxVars>>

NextCLI ==
    \/ ConvertDisk
    \/ CliPipelineStep
    \/ Environment(Main)
    \/ SignalHandler
    \/ SignalExit
    \/ ConvertReport

SpecCLI == InitCLI /\ [][NextCLI]_vars

-----------------------------------------------------------------------------
(* Properties of one call of create_vm_from_disk *)

Ended(c) == pc[c] = "end"
Failed(c) == result[c] = "failed"
Cancelled(c) == result[c] = "cancelled"
Returned(c) == result[c] = "returned"

\* The set of percentages in a progress sequence.
Reported(c) == {progress[c][i] : i \in 1..Len(progress[c])}

\* C1: every call that ends Failed or Cancelled leaves neither the temp raw
\* file nor a final file it produced in the output directory.
C1_NoPartialArtifacts ==
    (Failed(Main) \/ Cancelled(Main)) => (~raw /\ qcow \notin Produced)

\* C2: when the stop check is true at a poll tick of the duplication phase,
\* terminate() is called, the call waits for dd to exit and only then deletes
\* the temp raw file; qemu-img is never launched and the call can only end
\* Cancelled.
C2_DupCancelState ==
    /\ pc[Main] = "dd_cancel" => procSt[Main]["dd"] = "exited"
    /\ termSent[Main]["dd"] =>
        /\ procSt[Main]["qemu"] = "none"
        /\ result[Main] \in {"none", "cancelled"}
        /\ Ended(Main) => (Cancelled(Main) /\ ~raw /\ procSt[Main]["dd"] = "exited")

C2_DupCancelStep ==
    /\ (pc[Main] = "dd_stop" /\ stop[Main] /\ pc'[Main] # "dd_stop")
        => (termSent'[Main]["dd"] /\ pc'[Main] = "dd_wait")
    /\ (termSent[Main]["dd"] /\ raw /\ ~raw')
        => (procSt[Main]["dd"] = "exited" /\ Cancelled(Main)')

\* C2: the state and step conditions above hold throughout one call.
C2_DupCancel == []C2_DupCancelState /\ [][C2_DupCancelStep]_vars

C2_Witness ==
    /\ Cancelled(Main)
    /\ termSent[Main]["dd"]
    /\ procRc[Main]["dd"] = RcTerm
    /\ PctCopy \in Reported(Main)

\* C3: in the re-encode phase a true stop check ends the call Cancelled and a
\* nonzero exit of qemu-img ends it Failed with the CalledProcessError of
\* qemu_cmd; in both cases the temp raw file and the final file are absent
\* when the call ends.
C3_ReencodeState ==
    /\ (termSent[Main]["qemu"] /\ Ended(Main)) =>
        (Cancelled(Main) /\ ~raw /\ qcow = "absent")
    /\ (Failed(Main) /\ err[Main].cmd = "qemu_cmd") =>
        /\ err[Main] = CalledProcessError(procRc[Main]["qemu"], "qemu_cmd")
        /\ procRc[Main]["qemu"] # RcOk
        /\ ~raw
        /\ qcow = "absent"

C3_ReencodeStep ==
    /\ (pc[Main] = "q_stop" /\ stop[Main] /\ pc'[Main] # "q_stop")
        => (termSent'[Main]["qemu"] /\ pc'[Main] = "q_wait")
    /\ (pc[Main] = "q_comm" /\ procRc[Main]["qemu"] # RcOk /\ pc'[Main] # "q_comm")
        => (Failed(Main)' /\ err'[Main].cmd = "qemu_cmd")

\* C3: the state and step conditions above hold throughout one call.
C3_Reencode == []C3_ReencodeState /\ [][C3_ReencodeStep]_vars

C3_Witness ==
    \/ /\ Cancelled(Main)
       /\ termSent[Main]["qemu"]
       /\ PctCompress \in Reported(Main)
       /\ stopTool[Main] = "qemu"
    \/ /\ Failed(Main)
       /\ err[Main].cmd = "qemu_cmd"
       /\ PctCompress \in Reported(Main)
       /\ ~stop[Main]

\* C4: when dd exits on its own with a nonzero status the call deletes the
\* temp raw file, never launches qemu-img, never creates the final file, and
\* ends Failed with the CalledProcessError of dd_cmd and that status.
C4_DupFailState ==
    (err[Main].cmd = "dd_cmd") =>
        /\ Failed(Main)
        /\ err[Main] = CalledProcessError(procRc[Main]["dd"], "dd_cmd")
        /\ procRc[Main]["dd"] # RcOk
        /\ ~raw
        /\ procSt[Main]["qemu"] = "none"
        /\ qcow \notin Produced

C4_DupFailStep ==
    (pc[Main] = "dd_comm" /\ procRc[Main]["dd"] # RcOk /\ pc'[Main] # "dd_comm")
        => (Failed(Main)' /\ err'[Main].cmd = "dd_cmd" /\ ~raw')

\* C4: the state and step conditions above hold throughout one call.
C4_DupFail == []C4_DupFailState /\ [][C4_DupFailStep]_vars

C4_Witness ==
    /\ Failed(Main)
    /\ err[Main].cmd = "dd_cmd"
    /\ ~termSent[Main]["dd"]
    /\ PctCopy \in Reported(Main)

\* C5: the call returns normally only if the final file exists and is not
\* empty.
C5_ReturnsOnlyNonEmpty ==
    Returned(Main) => qcow \notin {"absent", "empty"}

\* C5 (second half): a call that the missing final file failed does not
\* report 100.
C5_MissingFails ==
    (Failed(Main) /\ err[Main] = Exc("Exception")) =>
        (qcow = "absent" /\ PctDone \notin Reported(Main))

\* C6 as stated: wherever the success path has removed the temp raw file,
\* the final artifact has already been confirmed to exist.
C6_RemovedAfterVerified ==
    rawRemoved[Main] => verified[Main]

\* C6 amended: the success path runs Reencoding, Cleanup, Verifying, Done:
\* wherever the final artifact has been confirmed to exist the temp raw file
\* has already been removed, and 100 is reported only after both.
C6_VerifiedAfterRemoved ==
    /\ verified[Main] => (rawRemoved[Main] /\ ~raw)
    /\ rawRemoved[Main] =>
        (procSt[Main]["qemu"] = "exited" /\ PctCleanup \in Reported(Main))
    /\ PctDone \in Reported(Main) => verified[Main]
    /\ Returned(Main) => verified[Main]

C6_Witness ==
    /\ Returned(Main)
    /\ verified[Main]
    /\ rawRemoved[Main]

C8_ProgressMonotone ==
    /\ \A i \in 1..Len(progress[Main]) : progress[Main][i] \in 0..100
    /\ \A i \in 1..Len(progress[Main]) : \A j \in 1..Len(progress[Main]) :
        i <= j => progress[Main][i] <= progress[Main][j]

C8_Witness ==
    /\ Returned(Main)
    /\ PctCopy \notin Reported(Main)
    /\ PctCompress \in Reported(Main)
    /\ Len(progress[Main]) >= 6

\* C9: in the command-line front end, a SIGINT or SIGTERM that arrives while
\* convert_disk runs the conversion is seen by the stop check, the running
\* tool is terminated and waited for, and neither the temp raw file nor the
\* final file of the conversion exists when the process exits.
C9_SignalCleansUp ==
    (cliPc = "exited" /\ result[Main] = "aborted") =>
        /\ ~raw
        /\ qcow \notin Produced
        /\ \A t \in Tools : procSt[Main][t] # "alive"
        /\ \A t \in Tools : procSt[Main][t] # "none" => termSent[Main][t]

\* C9, what the front end does instead: once the flag is set the main thread
\* never runs the stop check again, so no tool is ever terminated and no
\* call ends Cancelled.
C9_StopNeverObserved ==
    /\ \A t \in Tools : ~termSent[Main][t]
    /\ ~Cancelled(Main)
    /\ stop[Main] => cliPc \in {"handler", "exited"}

\* C10: when the stop flag becomes true while a monitored process is alive
\* and that process is still alive at the next poll tick, terminate() is
\* called at that tick: at most one progress callback is delivered between
\* the request and the termination, and none after it.
C10_LatencyState ==
    \A t \in Tools :
        (termSent[Main][t] /\ stopTool[Main] = t) => cbSinceStop[Main] <= 1

C10_LatencyStep ==
    /\ (pc[Main] = "dd_poll" /\ procSt[Main]["dd"] = "alive" /\ pc'[Main] # "dd_poll")
        => pc'[Main] = "dd_stop"
    /\ (pc[Main] = "q_poll" /\ procSt[Main]["qemu"] = "alive" /\ pc'[Main] # "q_poll")
        => pc'[Main] = "q_stop"
    /\ (pc[Main] = "dd_stop" /\ stop[Main] /\ pc'[Main] # "dd_stop")
        => termSent'[Main]["dd"]
    /\ (pc[Main] = "q_stop" /\ stop[Main] /\ pc'[Main] # "q_stop")
        => termSent'[Main]["qemu"]
    /\ (\E t \in Tools : termSent[Main][t]) => progress'[Main] = progress[Main]

\* C10: the state and step conditions above hold throughout one call.
C10_Latency == []C10_LatencyState /\ [][C10_LatencyStep]_vars

C10_Witness ==
    /\ Cancelled(Main)
    /\ stopTool[Main] = "qemu"
    /\ termSent[Main]["qemu"]
    /\ cbSinceStop[Main] = 1

-----------------------------------------------------------------------------
(* The graphical front end: P2VConverterGUI in gui.py *)

\* __init__: operation_running = False, stop_requested = False, the Start
\* button is enabled, no worker thread exists.
GuiReady == [pc |-> "ready", operationRunning |-> FALSE, report |-> "none",
             worker |-> "none", convertEnabled |-> TRUE, exit |-> "no"]

InitGUI ==
    /\ InitCall
    /\ cliPc = "off"
    /\ gui = GuiReady
    /\ run = RunOff
    /\ flow = FlowOff
    /\ fn = FnOff
    /\ pipeSt = PipeOff

\* A worker thread that has ended has no frame any more: what its call held
\* (its locals, and the flag value it was started with) is gone when the
\* next worker starts.  The processes and files it left stay.
NewFrame(f, v) == [d \in Calls |-> IF pc[d] = "end" THEN v ELSE f[d]]

\* Variant: convert_btn stays enabled while the worker runs.
GuiStart_ButtonEnabled(c) ==
    /\ gui.convertEnabled
    /\ gui.exit \in {"no", "pending"}
    /\ pc[c] = "idle"
    /\ c # Main => pc[Main] # "idle"
    /\ gui' = [gui EXCEPT !.pc = "working", !.operationRunning = TRUE,
                          !.worker = c, !.report = "none"]
    /\ pc' = [pc EXCEPT ![c] = "mkdir"]
    /\ stop' = NewFrame(stop, FALSE)
    /\ result' = NewFrame(result, "none")
    /\ err' = NewFrame(err, NoErr)
    /\ retval' = NewFrame(retval, "none")
    /\ progress' = NewFrame(progress, << >>)
    /\ ticks' = NewFrame(ticks, 0)
    /\ termSent' = NewFrame(termSent, [t \in Tools |-> FALSE])
    /\ stopTool' = NewFrame(stopTool, "none")
    /\ stopAt' = NewFrame(stopAt, NoStop)
    /\ cbSinceStop' = NewFrame(cbSinceStop, 0)
    /\ rawRemoved' = NewFrame(rawRemoved, FALSE)
    /\ verified' = NewFrame(verified, FALSE)
    /\ UNCHANGED <<procSt, procRc, raw, qcow, cliVars, run, flow, fn, pipeSt>>

\* start_conversion, after the confirmation: self.operation_running = True;
\* self.stop_requested = False; the worker thread is started and calls
\* create_vm_from_disk(..., progress_callback, stop_check); then
\* convert_btn is disabled.  The method is the command of convert_btn and
\* has no other caller, so it runs only while the button is enabled.
GuiStart(c) ==
    /\ gui.convertEnabled
    /\ gui.exit \in {"no", "pending"}
    /\ pc[c] = "idle"
    /\ c # Main => pc[Main] # "idle"
    /\ gui' = [gui EXCEPT !.pc = "working", !.operationRunning = TRUE,
                          !.worker = c, !.convertEnabled = FALSE,
                          !.report = "none"]
    /\ pc' = [pc EXCEPT ![c] = "mkdir"]
    /\ stop' = NewFrame(stop, FALSE)
    /\ result' = NewFrame(result, "none")
    /\ err' = NewFrame(err, NoErr)
    /\ retval' = NewFrame(retval, "none")
    /\ progress' = NewFrame(progress, << >>)
    /\ ticks' = NewFrame(ticks, 0)
    /\ termSent' = NewFrame(termSent, [t \in Tools |-> FALSE])
    /\ stopTool' = NewFrame(stopTool, "none")
    /\ stopAt' = NewFrame(stopAt, NoStop)
    /\ cbSinceStop' = NewFrame(cbSinceStop, 0)
    /\ rawRemoved' = NewFrame(rawRemoved, FALSE)
    /\ verified' = NewFrame(verified, FALSE)
    /\ UNCHANGED <<procSt, procRc, raw, qcow, cliVars, run, flow, fn, pipeSt>>

GuiStartWorker == GuiStart(Main)

\* stop_operation (the Stop button, on the main thread):
\* if self.operation_running: self.stop_requested = True
\* The flag is the one the running worker's stop_check reads.
GuiStop(c) ==
    /\ gui.operationRunning
    /\ gui.exit \in {"no", "pending"}
    /\ gui.worker = c
    /\ ~stop[c]
    /\ stop' = [stop EXCEPT ![c] = TRUE]
    /\ stopTool' = [stopTool EXCEPT ![c] = AliveTool(c)]
    /\ stopAt' = [stopAt EXCEPT ![c] = StopPoint(c)]
    /\ UNCHANGED <<pipeVars, cbSinceStop, rawRemoved, verified, cliVars, auxVars>>

StopOperation == GuiStop(Main)

\* _conversion_worker after create_vm_from_disk has ended:
\*   returned: if not self.stop_requested: showinfo("Conversion Complete")
\*             (nothing otherwise)
\*   except KeyboardInterrupt: log_warning("P2V conversion cancelled by user")
\*   except Exception: showerror("Conversion Failed")
\*   finally: root.after(0, self._reset_ui_after_operation)
GuiReport(c) ==
    /\ gui.pc = "working"
    /\ gui.exit \in {"no", "pending"}
    /\ gui.worker = c
    /\ Ended(c)
    /\ gui' = [gui EXCEPT
                 !.pc = "reported",
                 !.report = IF Returned(c)
                            THEN (IF stop[c] THEN "none" ELSE "completed")
                            ELSE IF Cancelled(c) THEN "cancelled"
                            ELSE "failed"]
    /\ UNCHANGED <<pipeVars, stop, histVars, cliVars, run, flow, fn>>

GuiWorkerReport == GuiReport(Main)

\* _reset_ui_after_operation: self.operation_running = False; convert_btn
\* is enabled again.
ResetUiAfterOperation ==
    /\ gui.pc = "reported"
    /\ gui.exit \in {"no", "pending"}
    /\ gui' = [gui EXCEPT !.pc = "done", !.operationRunning = FALSE,
                          !.convertEnabled = TRUE]
    /\ UNCHANGED <<pipeVars, stop, histVars, cliVars, run, flow, fn>>

NextGUI ==
    \/ GuiStartWorker
    \/ StopOperation
    \/ Pipeline(Main)
    \/ Environment(Main)
    \/ GuiWorkerReport
    \/ ResetUiAfterOperation

SpecGUI == InitGUI /\ [][NextGUI]_vars

-----------------------------------------------------------------------------
(* The application over several conversions, and its exit *)

\* The worker thread of call c runs create_vm_from_disk; it is a daemon
\* thread and ends with the interpreter.
GuiWorkerStep(c) ==
    /\ gui.worker = c
    /\ gui.exit \in {"no", "pending"}
    /\ Pipeline(c)

\* exit_application (Exit button, WM_DELETE_WINDOW).  With an operation
\* running and the question answered with yes: self.stop_requested = True;
\* self.root.after(1000, self._force_exit).  Without one, after the
\* confirmation: self._perform_exit(...).
ExitApplication ==
    /\ gui.exit = "no"
    /\ gui.worker \in Calls \/ ~gui.operationRunning
    /\ IF gui.operationRunning
       THEN /\ gui' = [gui EXCEPT !.exit = "pending"]
            /\ stop' = [stop EXCEPT ![gui.worker] = TRUE]
            /\ IF stop[gui.worker]
               THEN UNCHANGED <<stopTool, stopAt>>
               ELSE /\ stopTool' = [stopTool EXCEPT
                                      ![gui.worker] = AliveTool(gui.worker)]
                    /\ stopAt' = [stopAt EXCEPT
                                    ![gui.worker] = StopPoint(gui.worker)]
       ELSE /\ gui' = [gui EXCEPT !.exit = "closed"]
            /\ UNCHANGED <<stop, stopTool, stopAt>>
    /\ UNCHANGED <<pipeVars, cbSinceStop, rawRemoved, verified, cliVars>>
    /\ UNCHANGED <<run, flow, fn>>

\* _force_exit, one second later: _perform_exit: root.quit(); root.destroy().
\* The main loop returns and the process ends with its daemon thread; the
\* external tools are processes of their own.
ForceExit ==
    /\ gui.exit = "pending"
    /\ gui' = [gui EXCEPT !.exit = "forced"]
    /\ UNCHANGED <<pipeVars, stop, histVars, cliVars, run, flow, fn>>

NextApp ==
    \/ \E c \in Calls : GuiStart(c)
    \/ \E c \in Calls : GuiStop(c)
    \/ \E c \in Calls : GuiWorkerStep(c)
    \/ \E c \in Calls : Environment(c)
    \/ \E c \in Calls : GuiReport(c)
    \/ ResetUiAfterOperation
    \/ ExitApplication
    \/ ForceExit

SpecApp == InitGUI /\ [][NextApp]_vars

-----------------------------------------------------------------------------
(* C22: one conversion at a time in the GUI *)

Active(c) == pc[c] \notin {"idle", "end"}

C22_OneSessionState ==
    /\ Cardinality({c \in Calls : Active(c)}) <= 1
    /\ \A c \in Calls : Active(c) =>
          /\ gui.worker = c
          /\ gui.operationRunning
          /\ ~gui.convertEnabled
    /\ gui.convertEnabled => ~gui.operationRunning

C22_OneSessionStep ==
    \A c \in Calls : (~Active(c) /\ Active(c)') =>
        /\ ~gui.operationRunning
        /\ gui.pc \in {"ready", "done"}
        /\ \A d \in Calls : ~Active(d)

\* C22: at most one worker runs create_vm_from_disk at a time; a worker is
\* started only when no operation is running, that is before the first
\* conversion or after the UI reset of the previous one.
C22_OneSession == []C22_OneSessionState /\ [][C22_OneSessionStep]_vars

C22_Witness ==
    /\ pc[Main] = "end"
    /\ procSt["c2"]["qemu"] = "alive"
    /\ gui.worker = "c2"
    /\ gui.operationRunning


-----------------------------------------------------------------------------
(* C12: what the front end tells the user *)

\* C12: once the worker has reported, the report is "completed" exactly when
\* create_vm_from_disk returned the final path, "cancelled" exactly when it
\* ended Cancelled (no temporary or partial file left), and "failed" exactly when it ended
\* Failed.
C12_ReportMatchesOutcome ==
    gui.pc \in {"reported", "done"} =>
        /\ gui.report = "completed" <=> Returned(Main)
        /\ gui.report = "cancelled" <=>
               (Cancelled(Main) /\ ~raw /\ qcow # "partial")
        /\ gui.report = "failed" <=> Failed(Main)

-----------------------------------------------------------------------------
(* run_command_with_progress(command_list, progress_callback, stop_flag) *)

\* Everything outside the helper functions and the front-end flows.
mainVars == <<pipeVars, stop, histVars, cliVars, gui>>

InitRun ==
    /\ InitCall
    /\ cliPc = "off"
    /\ gui = GuiOff
    /\ \E cb \in BOOLEAN, flag \in BOOLEAN :
        run = [pc |-> "popen", proc |-> "none", rc |-> RcOk, term |-> FALSE,
               hasCallback |-> cb, hasStopFlag |-> flag, stop |-> FALSE,
               ticks |-> 0, outcome |-> "none"]
    /\ flow = FlowOff
    /\ fn = FnOff
    /\ pipeSt = PipeOff

RunEnd(o) == run' = [run EXCEPT !.pc = "end", !.outcome = o]

\* process = subprocess.Popen(command_list, ...); except FileNotFoundError:
\* log, re-raise.
RunPopen ==
    /\ run.pc = "popen"
    /\ \E ok \in BOOLEAN :
        IF ok
        THEN run' = [run EXCEPT !.pc = "poll", !.proc = "alive"]
        ELSE RunEnd("FileNotFoundError")
    /\ UNCHANGED <<mainVars, flow, fn>>

\* while process.poll() is None:
RunPoll ==
    /\ run.pc = "poll"
    /\ IF run.proc = "alive"
       THEN /\ run.ticks < MaxTicks
            /\ run' = [run EXCEPT !.pc = "stop"]
       ELSE run' = [run EXCEPT !.pc = "comm"]
    /\ UNCHANGED <<mainVars, flow, fn>>

\* if stop_flag and stop_flag(): process.terminate()
RunStopCheck ==
    /\ run.pc = "stop"
    /\ IF run.hasStopFlag /\ run.stop
       THEN run' = [run EXCEPT !.pc = "wait", !.term = TRUE]
       ELSE run' = [run EXCEPT !.pc = "cb"]
    /\ UNCHANGED <<mainVars, flow, fn>>

\* process.wait(); raise KeyboardInterrupt("Operation cancelled by user")
RunWait ==
    /\ run.pc = "wait"
    /\ run.proc = "exited"
    /\ RunEnd("KeyboardInterrupt")
    /\ UNCHANGED <<mainVars, flow, fn>>

\* if progress_callback: progress_callback(); time.sleep(1)
\* An exception of the callback matches none of the except clauses and
\* leaves the function with the process still running.
RunCallback ==
    /\ run.pc = "cb"
    /\ \E ok \in BOOLEAN :
        IF ok \/ ~run.hasCallback
        THEN run' = [run EXCEPT !.pc = "poll", !.ticks = @ + 1]
        ELSE RunEnd("CallbackError")
    /\ UNCHANGED <<mainVars, flow, fn>>

\* stdout, stderr = process.communicate(); if process.returncode != 0:
\* raise CalledProcessError; return stdout.strip()
RunCommunicate ==
    /\ run.pc = "comm"
    /\ run.proc = "exited"
    /\ RunEnd(IF run.rc # RcOk THEN "CalledProcessError" ELSE "stdout")
    /\ UNCHANGED <<mainVars, flow, fn>>

\* The owner of stop_flag makes it true.
RunRequestStop ==
    /\ run.pc \notin {"off", "end"}
    /\ run.hasStopFlag
    /\ ~run.stop
    /\ run' = [run EXCEPT !.stop = TRUE]
    /\ UNCHANGED <<mainVars, flow, fn>>

\* The process exits on its own, or dies of the SIGTERM of terminate().
RunProcessExit ==
    /\ run.proc = "alive"
    /\ \E rc \in ExitCodes \cup {RcTerm} :
        /\ rc = RcTerm => run.term
        /\ run' = [run EXCEPT !.proc = "exited", !.rc = rc]
    /\ UNCHANGED <<mainVars, flow, fn>>

NextRun ==
    \/ RunPopen
    \/ RunPoll
    \/ RunStopCheck
    \/ RunWait
    \/ RunCallback
    \/ RunCommunicate
    \/ RunRequestStop
    \/ RunProcessExit

SpecRun == InitRun /\ [][NextRun]_vars

-----------------------------------------------------------------------------
(* C13: the outcomes of run_command_with_progress *)

\* C13: the function ends by returning stdout after exit status 0, by
\* CalledProcessError after a nonzero status, by KeyboardInterrupt after
\* terminate() and the exit of the process, or by FileNotFoundError when
\* nothing was launched, and in no other way.
C13_FourOutcomes ==
    run.pc = "end" =>
        \/ run.outcome = "stdout" /\ run.proc = "exited" /\ run.rc = RcOk
        \/ run.outcome = "CalledProcessError" /\ run.proc = "exited"
              /\ run.rc # RcOk
        \/ run.outcome = "KeyboardInterrupt" /\ run.term /\ run.proc = "exited"
        \/ run.outcome = "FileNotFoundError" /\ run.proc = "none"

-----------------------------------------------------------------------------
(* Helper functions of utils.py, applied to inputs drawn from bounded sets *)

MaxLines == 2

SeqsUpTo(S, n) == UNION {[1..k -> S] : k \in 0..n}

\* How a Python call ends.
Returns(v) == [kind |-> "return", value |-> v, logged |-> FALSE]
ReturnsLogged(v) == [kind |-> "return", value |-> v, logged |-> TRUE]
Raises(class) == [kind |-> "raise", value |-> class, logged |-> TRUE]
SysExit(code) == [kind |-> "exit", value |-> code, logged |-> TRUE]

\* What running lsblk can do: the executable is missing, it exits nonzero,
\* Ctrl+C arrives while it runs, or it prints lines.  A line has all four
\* columns, lacks the model, has only a name, or has a size that is not a
\* number.
LineKinds == {"full", "nomodel", "nameonly", "badsize"}
LsblkRuns ==
    {[status |-> st, lines |-> << >>] :
        st \in {"missing", "nonzero", "interrupted"}}
    \cup {[status |-> "ok", lines |-> l] : l \in SeqsUpTo(LineKinds, MaxLines)}

\* run_command(command_list, raise_on_error): subprocess.run(check=True);
\* each except clause logs, then sys.exit(2), sys.exit(1) or sys.exit(130),
\* or re-raises when raise_on_error is false.
run_command(r, raise_on_error) ==
    CASE r.status = "missing" ->
           IF raise_on_error THEN SysExit(2) ELSE Raises("FileNotFoundError")
      [] r.status = "nonzero" ->
           IF raise_on_error THEN SysExit(1) ELSE Raises("CalledProcessError")
      [] r.status = "interrupted" -> SysExit(130)
      [] OTHER -> Returns(r.lines)

\* The parsing loop of get_disk_list: a line with fewer than two parts is
\* skipped, int(parts[1]) raises ValueError, model defaults to "Unknown".
RECURSIVE ParseLines(_)
ParseLines(lines) ==
    IF lines = << >> THEN Returns(<< >>)
    ELSE LET rest == ParseLines(Tail(lines))
             line == Head(lines)
         IN  IF line = "badsize" THEN Raises("ValueError")
             ELSE IF rest.kind # "return" THEN rest
             ELSE IF line = "nameonly" THEN rest
             ELSE Returns(<<line>> \o rest.value)

\* get_disk_list(): run_command is called with raise_on_error left at its
\* default True; the except clauses catch FileNotFoundError,
\* CalledProcessError, IndexError, ValueError and KeyboardInterrupt, log
\* and return [].  SystemExit is none of these.
Handled == {"FileNotFoundError", "CalledProcessError", "IndexError",
            "ValueError", "KeyboardInterrupt"}

get_disk_list(first, second) ==
    LET out1 == run_command(first, TRUE)
        out2 == run_command(second, TRUE)
        out == IF out1.kind = "return" /\ out1.value = << >> THEN out2 ELSE out1
        parsed == IF out.kind # "return" THEN out
                  ELSE IF out.value = << >> THEN ReturnsLogged(<< >>)
                  ELSE ParseLines(out.value)
    IN  IF parsed.kind = "raise" /\ parsed.value \in Handled
        THEN ReturnsLogged(<< >>)
        ELSE parsed

\* Sizes in bytes, and compression ratios as fractions <<num, den>> whose
\* floating-point value is exact; 100000000 bytes at the default ratio with
\* 200000000 bytes free is the documented example.
MaxSize == 12
Sizes == (0..MaxSize) \cup {100000000}
FreeBytes == (0..(MaxSize + 2)) \cup {200000000}
DefaultRatio == <<1, 2>>
Ratios == {DefaultRatio, <<1, 4>>, <<3, 4>>, <<1, 1>>}
SizesAndRatios ==
    ((0..MaxSize) \X Ratios) \cup {<<100000000, DefaultRatio>>}

\* int(x) of a non-negative quotient.
Floor(num, den) == num \div den

\* Variant: the margin is rounded up instead of truncated.
check_output_space_RoundUp(dirOk, free, size, ratio) ==
    LET estimated_vm_size == Floor(size * ratio[1], ratio[2])
        required_space == Floor(estimated_vm_size * 11 + 9, 10)
    IN  IF dirOk
        THEN [has_space |-> free >= required_space,
              estimated |-> estimated_vm_size,
              required |-> required_space,
              error |-> FALSE]
        ELSE [has_space |-> FALSE, estimated |-> 0, required |-> 0,
              error |-> TRUE]

\* check_output_space(output_path, source_disk_size, compression_ratio):
\*   os.makedirs(output_path, exist_ok=True)
\*   estimated_vm_size = int(source_disk_size * compression_ratio)
\*   required_space = int(estimated_vm_size * 1.1)
\*   has_space = space_info['free'] >= required_space
\*   except Exception: return False, "Error checking space: ..."
\* free is what get_directory_space reports (0 when disk_usage fails).
check_output_space(dirOk, free, size, ratio) ==
    LET estimated_vm_size == Floor(size * ratio[1], ratio[2])
        required_space == Floor(estimated_vm_size * 11, 10)
    IN  IF dirOk
        THEN [has_space |-> free >= required_space,
              estimated |-> estimated_vm_size,
              required |-> required_space,
              error |-> FALSE]
        ELSE [has_space |-> FALSE, estimated |-> 0, required |-> 0,
              error |-> TRUE]

\* get_disk_info(device): blockdev --getsize64 and lsblk; on any Exception
\* it logs and returns size_bytes 0, model "Unknown".
get_disk_info(probeOk, size) ==
    IF probeOk
    THEN [size_bytes |-> size, model |-> "model", raised |-> FALSE]
    ELSE [size_bytes |-> 0, model |-> "Unknown", raised |-> FALSE]

\* P2VConverterCLI.check_space_requirements: disk_size is passed on as it
\* is; "Space check passed" when has_space, "Space check failed" otherwise.
CliCheckSpaceRequirements(info, dirOk, free) ==
    IF check_output_space(dirOk, free, info.size_bytes, DefaultRatio).has_space
    THEN "passed"
    ELSE "failed"

\* P2VConverterGUI.check_space_requirements (the button):
\* if disk_size == 0: raise Exception("Could not determine disk size"),
\* which the method's own handler shows as an error.
GuiCheckSpaceRequirements(info, dirOk, free) ==
    IF info.size_bytes = 0 THEN "error"
    ELSE IF check_output_space(dirOk, free, info.size_bytes, DefaultRatio).has_space
    THEN "passed"
    ELSE "failed"

\* P2VConverterGUI.start_conversion: the check is made only if disk_size > 0;
\* on insufficient space the user is asked whether to continue.
GuiStartSpaceCheck(info, dirOk, free) ==
    IF info.size_bytes > 0
    THEN IF check_output_space(dirOk, free, info.size_bytes, DefaultRatio).has_space
         THEN "passed"
         ELSE "warned"
    ELSE "skipped"

\* Names are sequences of characters.  A name is a short head over an
\* alphabet that can spell reserved names in either case and holds two of the
\* invalid characters, followed by a run of "a" that brings it to the length
\* limit.
MaxHead == 4
MaxNameLen == 100
NameAlphabet == {"c", "o", "n", "M", "1", "<", "*"}
PadLengths == {0, MaxNameLen - 2, MaxNameLen - 1, MaxNameLen, MaxNameLen + 1}
Pad(n) == [i \in 1..n |-> "a"]
Names == {h \o Pad(n) : h \in SeqsUpTo(NameAlphabet, MaxHead), n \in PadLengths}

\* invalid_chars = '<>:"/\\|?*'
invalid_chars == <<"<", ">", ":", "\"", "/", "\\", "|", "?", "*">>

\* for char in invalid_chars: if char in name: the first such char's
\* position in invalid_chars, 0 when there is none.
FirstInvalid(name) ==
    LET hits == {i \in DOMAIN invalid_chars :
                    \E j \in DOMAIN name : name[j] = invalid_chars[i]}
    IN  IF hits = {} THEN 0
        ELSE CHOOSE i \in hits : \A k \in hits : i <= k

\* str.lower() on the alphabet.
LowerChar(ch) ==
    CASE ch = "M" -> "m"
      [] ch = "C" -> "c"
      [] OTHER -> ch
Lower(name) == [i \in DOMAIN name |-> LowerChar(name[i])]

reserved ==
    {<<"c", "o", "n">>, <<"p", "r", "n">>, <<"a", "u", "x">>,
     <<"n", "u", "l">>, <<"c", "o", "m", "1">>, <<"c", "o", "m", "2">>,
     <<"c", "o", "m", "3">>, <<"c", "o", "m", "4">>, <<"c", "o", "m", "5">>,
     <<"c", "o", "m", "6">>, <<"c", "o", "m", "7">>, <<"c", "o", "m", "8">>,
     <<"c", "o", "m", "9">>, <<"l", "p", "t", "1">>, <<"l", "p", "t", "2">>,
     <<"l", "p", "t", "3">>, <<"l", "p", "t", "4">>, <<"l", "p", "t", "5">>,
     <<"l", "p", "t", "6">>, <<"l", "p", "t", "7">>, <<"l", "p", "t", "8">>,
     <<"l", "p", "t", "9">>}

\* validate_vm_name(name) ends with one of five (valid, message) pairs.
NameResult(valid, reason) == [valid |-> valid, reason |-> reason]

\* Variant: names of 100 characters are already too long.
validate_vm_name_Short(name) ==
    IF name = << >> THEN NameResult(FALSE, "empty")
    ELSE IF FirstInvalid(name) # 0 THEN NameResult(FALSE, "invalid_char")
    ELSE IF Len(name) >= MaxNameLen THEN NameResult(FALSE, "too_long")
    ELSE IF Lower(name) \in reserved THEN NameResult(FALSE, "reserved")
    ELSE NameResult(TRUE, "valid")

\* validate_vm_name(name): the four tests in the order of the code.
validate_vm_name(name) ==
    IF name = << >> THEN NameResult(FALSE, "empty")
    ELSE IF FirstInvalid(name) # 0 THEN NameResult(FALSE, "invalid_char")
    ELSE IF Len(name) > MaxNameLen THEN NameResult(FALSE, "too_long")
    ELSE IF Lower(name) \in reserved THEN NameResult(FALSE, "reserved")
    ELSE NameResult(TRUE, "valid")

\* Device names and paths are sequences of characters.
Letters == {"a", "b", "d", "e", "f", "m", "n", "o", "p", "r", "s", "t", "v"}
Digits == {"0", "1", "2"}

DevPrefix == <<"/", "d", "e", "v", "/">>
Dev(name) == DevPrefix \o name

\* needle in hay
Contains(hay, needle) ==
    \E i \in 0..(Len(hay) - Len(needle)) :
        \A j \in 1..Len(needle) : hay[i + j] = needle[j]

\* The number of consecutive characters of str, from position i on, that
\* are in set: what a greedy X* consumes.
RECURSIVE RunLength(_, _, _)
RunLength(str, i, set) ==
    IF i <= Len(str) /\ str[i] \in set
    THEN 1 + RunLength(str, i + 1, set)
    ELSE 0

\* re.search(r'/dev/([a-zA-Z]+\d*[a-zA-Z]*\d*)', root_device).group(1):
\* the leftmost "/dev/" followed by a letter, then greedily letters,
\* digits, letters, digits.  << >> when there is no match.
RootDeviceName(root_device) ==
    LET starts == {i \in 1..Len(root_device) :
                      /\ i + Len(DevPrefix) <= Len(root_device)
                      /\ SubSeq(root_device, i, i + Len(DevPrefix) - 1) = DevPrefix
                      /\ root_device[i + Len(DevPrefix)] \in Letters}
    IN  IF starts = {} THEN << >>
        ELSE LET i == CHOOSE k \in starts : \A m \in starts : k <= m
                 b == i + Len(DevPrefix)
                 l1 == RunLength(root_device, b, Letters)
                 d1 == RunLength(root_device, b + l1, Digits)
                 l2 == RunLength(root_device, b + l1 + d1, Letters)
                 d2 == RunLength(root_device, b + l1 + d1 + l2, Digits)
             IN  SubSeq(root_device, b, b + l1 + d1 + l2 + d2 - 1)

\* re.match(r'(nvme\d+n\d+)', device_name): length of the match, 0 if none.
NvmeMatch(device_name) ==
    LET d1 == RunLength(device_name, 5, Digits)
        d2 == RunLength(device_name, 6 + d1, Digits)
    IN  IF /\ Len(device_name) >= 4
           /\ SubSeq(device_name, 1, 4) = <<"n", "v", "m", "e">>
           /\ d1 >= 1
           /\ 5 + d1 <= Len(device_name)
           /\ device_name[5 + d1] = "n"
           /\ d2 >= 1
        THEN 5 + d1 + d2
        ELSE 0

\* re.match(r'([a-zA-Z/]+[a-zA-Z])', device_name): the longest prefix of
\* letters and slashes, at least two characters, that ends in a letter;
\* 0 if none.
TraditionalMatch(device_name) ==
    LET r == RunLength(device_name, 1, Letters \cup {"/"})
        ends == {k \in 2..r : device_name[k] \in Letters}
    IN  IF ends = {} THEN 0
        ELSE CHOOSE k \in ends : \A m \in ends : m <= k

\* Variant: one trailing digit is cut off.
get_base_disk_CutDigit(device_name) ==
    IF device_name # << >> /\ device_name[Len(device_name)] \in Digits
    THEN SubSeq(device_name, 1, Len(device_name) - 1)
    ELSE device_name

\* get_base_disk(device_name)
get_base_disk(device_name) ==
    IF Contains(device_name, <<"n", "v", "m", "e">>) /\ NvmeMatch(device_name) > 0
    THEN SubSeq(device_name, 1, NvmeMatch(device_name))
    ELSE IF TraditionalMatch(device_name) > 0
    THEN SubSeq(device_name, 1, TraditionalMatch(device_name))
    ELSE device_name

\* get_active_disk(): the device of the first line of /proc/mounts that
\* holds ' / '; a list with its base disk, or None (the empty set here)
\* when the file cannot be read, no such line exists or the device does
\* not match.
None == {}
get_active_disk(mounts) ==
    IF mounts.status # "ok" THEN None
    ELSE IF RootDeviceName(mounts.root_device) = << >> THEN None
    ELSE {get_base_disk(RootDeviceName(mounts.root_device))}

\* list_disks: is_system = any(f"/dev/{active}" in disk['device']
\*                              for active in active_disks)
is_system(active_disks, device) ==
    \E active \in active_disks : Contains(device, Dev(active))

\* Disks of a machine, the partitions the root filesystem can be on, and
\* the ways detection fails.
DiskNames ==
    {<<"s", "d", "a">>,
     <<"s", "d", "b">>,
     <<"s", "d", "a", "a">>,
     <<"n", "v", "m", "e", "0", "n", "1">>,
     <<"n", "v", "m", "e", "0", "n", "1", "2">>}
PartNumbers == {<<"1">>, <<"1", "2">>}
Partition(disk, number) ==
    IF SubSeq(disk, 1, 1) = <<"n">> THEN disk \o <<"p">> \o number
    ELSE disk \o number
Mounts ==
    {[status |-> "ok", disk |-> d, root_device |-> Dev(Partition(d, n))] :
        d \in DiskNames, n \in PartNumbers}
    \cup {[status |-> "ok", disk |-> << >>, root_device |-> <<"r", "o", "o", "t", "f", "s">>],
          [status |-> "noroot", disk |-> << >>, root_device |-> << >>],
          [status |-> "unreadable", disk |-> << >>, root_device |-> << >>]}

InitFn ==
    /\ InitCall
    /\ cliPc = "off"
    /\ gui = GuiOff
    /\ run = RunOff
    /\ flow = FlowOff
    /\ fn = [op |-> "none"]    \* no helper has been applied yet
    /\ pipeSt = PipeOff

GetDiskList ==
    /\ fn.op = "none"
    /\ \E first \in LsblkRuns, second \in LsblkRuns :
        fn' = [op |-> "get_disk_list", first |-> first, second |-> second,
               out |-> get_disk_list(first, second)]
    /\ UNCHANGED <<mainVars, run, flow>>

CheckSpace ==
    /\ fn.op = "none"
    /\ \E probeOk \in BOOLEAN, size \in Sizes, dirOk \in BOOLEAN,
          free \in FreeBytes,
          caller \in {"cli", "gui_button", "gui_start"} :
        LET info == get_disk_info(probeOk, size)
        IN  fn' = [op |-> "check_space", caller |-> caller,
                   probeOk |-> probeOk, info |-> info,
                   dirOk |-> dirOk, free |-> free,
                   out |-> CASE caller = "cli" ->
                                  CliCheckSpaceRequirements(info, dirOk, free)
                             [] caller = "gui_button" ->
                                  GuiCheckSpaceRequirements(info, dirOk, free)
                             [] OTHER ->
                                  GuiStartSpaceCheck(info, dirOk, free)]
    /\ UNCHANGED <<mainVars, run, flow>>

CheckOutputSpace ==
    /\ fn.op = "none"
    /\ \E dirOk \in BOOLEAN, free \in FreeBytes, sr \in SizesAndRatios :
        fn' = [op |-> "check_output_space", dirOk |-> dirOk, free |-> free,
               size |-> sr[1], ratio |-> sr[2],
               out |-> check_output_space(dirOk, free, sr[1], sr[2])]
    /\ UNCHANGED <<mainVars, run, flow>>

ValidateVmName ==
    /\ fn.op = "none"
    /\ \E name \in Names :
        fn' = [op |-> "validate_vm_name", name |-> name,
               out |-> validate_vm_name(name)]
    /\ UNCHANGED <<mainVars, run, flow>>

\* Device names given to get_base_disk: every concatenation of up to
\* MaxTokens pieces, and the disks and partitions of the machine.
MaxTokens == 5
NameTokens == {<<"n", "v", "m", "e">>, <<"n">>, <<"p">>, <<"a">>, <<"1">>, <<"/">>}
RECURSIVE Concat(_)
Concat(pieces) ==
    IF pieces = << >> THEN << >> ELSE Head(pieces) \o Concat(Tail(pieces))
DeviceNames ==
    {Concat(ps) : ps \in SeqsUpTo(NameTokens, MaxTokens)}
    \cup DiskNames
    \cup {Partition(d, n) : d \in DiskNames, n \in PartNumbers}

GetBaseDisk ==
    /\ fn.op = "none"
    /\ \E name \in DeviceNames :
        LET base == get_base_disk(name)
        IN  fn' = [op |-> "get_base_disk", name |-> name, out |-> base,
                   again |-> get_base_disk(base)]
    /\ UNCHANGED <<mainVars, run, flow>>

ListDisks ==
    /\ fn.op = "none"
    /\ \E mounts \in Mounts, listed \in DiskNames :
        LET active_disks == get_active_disk(mounts)
        IN  fn' = [op |-> "list_disks", mounts |-> mounts,
                   device |-> Dev(listed), active |-> active_disks,
                   is_system |-> is_system(active_disks, Dev(listed))]
    /\ UNCHANGED <<mainVars, run, flow>>

NextFn ==
    \/ GetDiskList
    \/ CheckSpace
    \/ CheckOutputSpace
    \/ ValidateVmName
    \/ ListDisks
    \/ GetBaseDisk

SpecFn == InitFn /\ [][NextFn]_vars

-----------------------------------------------------------------------------
(* C14: disk enumeration fails soft *)

EnumerationError(r) ==
    \/ r.status # "ok"
    \/ \E i \in DOMAIN r.lines : r.lines[i] = "badsize"

\* C14: get_disk_list always returns; when the enumeration met an error it
\* returns the empty list and has logged the error.
C14_FailSoft ==
    fn.op = "get_disk_list" =>
        /\ fn.out.kind = "return"
        /\ EnumerationError(fn.first) => fn.out = ReturnsLogged(<< >>)

-----------------------------------------------------------------------------
(* C15: an unknown disk size *)

\* C15: a failed get_disk_info yields size_bytes 0 and model "Unknown"
\* without raising, and with size_bytes 0 no caller reports the space check
\* as passed.
C15_ZeroSizeIsUnknown ==
    fn.op = "check_space" =>
        /\ ~fn.probeOk =>
              fn.info = [size_bytes |-> 0, model |-> "Unknown", raised |-> FALSE]
        /\ fn.info.size_bytes = 0 => fn.out # "passed"

-----------------------------------------------------------------------------
(* C16: the space estimate *)

\* C16: for a usable output directory, estimated is the integer part of
\* size * ratio, required is the integer part of estimated * 1.1, required
\* is below size * ratio * 1.1 by less than 3, and the space is sufficient
\* exactly when free >= required; 100000000 bytes at ratio 1/2 need
\* 55000000 bytes, so 200000000 free bytes are sufficient.
C16_RequiredSpace ==
    (fn.op = "check_output_space" /\ fn.dirOk) =>
        LET num == fn.ratio[1]
            den == fn.ratio[2]
            est == fn.out.estimated
            req == fn.out.required
        IN  /\ est * den <= fn.size * num
            /\ fn.size * num < (est + 1) * den
            /\ req * 10 <= est * 11
            /\ est * 11 < (req + 1) * 10
            /\ req * den * 10 <= fn.size * num * 11
            /\ fn.size * num * 11 - req * den * 10 < 3 * den * 10
            /\ fn.out.has_space <=> fn.free >= req
            /\ ~fn.out.error
            /\ (fn.size = 100000000 /\ fn.ratio = DefaultRatio) =>
                  /\ req = 55000000
                  /\ fn.free = 200000000 => fn.out.has_space

C16_Witness ==
    /\ fn.op = "check_output_space"
    /\ fn.dirOk
    /\ fn.size = 100000000
    /\ fn.ratio = DefaultRatio
    /\ fn.free = 200000000
    /\ fn.out.has_space
    /\ fn.out.required = 55000000

-----------------------------------------------------------------------------
(* C17: VM names *)

HasInvalidChar(name) ==
    \E j \in DOMAIN name :
        name[j] \in {"<", ">", ":", "\"", "/", "\\", "|", "?", "*"}

\* C17: a name is accepted exactly when it is non-empty, has at most 100
\* characters, none of them one of < > : " / \ | ? *, and its lower-cased
\* form is not reserved; a name with one of those characters is rejected
\* for that character whatever its length; 100 characters are accepted and
\* 101 are too long.
C17_ValidNames ==
    fn.op = "validate_vm_name" =>
        /\ fn.out.valid <=>
              /\ Len(fn.name) > 0
              /\ Len(fn.name) <= 100
              /\ ~HasInvalidChar(fn.name)
              /\ Lower(fn.name) \notin reserved
        /\ HasInvalidChar(fn.name) => fn.out = NameResult(FALSE, "invalid_char")
        /\ fn.name = Pad(100) => fn.out.valid
        /\ fn.name = Pad(101) => fn.out = NameResult(FALSE, "too_long")
        /\ fn.name \in {<<"c", "o", "n">>, <<"c", "o", "M", "1">>} =>
              fn.out = NameResult(FALSE, "reserved")
        /\ fn.out = validate_vm_name(fn.name)

C17_Witness ==
    /\ fn.op = "validate_vm_name"
    /\ Len(fn.name) = 100
    /\ fn.name[1] = "n"
    /\ fn.out.valid

-----------------------------------------------------------------------------
(* The way of a front end to create_vm_from_disk: run_batch and
   run_interactive in cli.py, __init__ and start_conversion in gui.py *)

Modes == {"batch", "interactive", "gui"}

\* Names a user can supply: none, a reserved one, one with an invalid
\* character, and two valid ones.
FlowNames == {<< >>, <<"c", "o", "n">>, <<"<", "n">>, <<"n", "1">>, <<"n">>}

\* input() ends with EOFError or KeyboardInterrupt.
NoInput == <<"EOF">>

\* default_vm_name = f"{source_device.split('/')[-1]}_vm"
default_vm_name == <<"n", "1">>

InitFlow ==
    /\ InitCall
    /\ cliPc = "off"
    /\ gui = GuiOff
    /\ run = RunOff
    /\ fn = FnOff
    /\ pipeSt = PipeOff
    /\ \E mode \in Modes, toolsOk \in BOOLEAN :
        flow = [mode |-> mode, pc |-> "start", toolsOk |-> toolsOk,
                prereq |-> "none", name |-> << >>, rejected |-> FALSE,
                created |-> FALSE, space |-> "none", override |-> "none"]

\* The request is over: the command-line front end returns its exit code,
\* the graphical one returns from start_conversion to the main loop.
FlowEnd == IF flow.mode = "gui" THEN "ready" ELSE "exit"

\* check_prerequisites.  cli.py: returns False when a tool is missing and
\* run_batch / run_interactive return 1.  gui.py: called from __init__,
\* shows an error dialog when a tool is missing and returns nothing.
FlowCheckPrerequisites ==
    /\ flow.pc = "start"
    /\ flow' = [flow EXCEPT
                  !.prereq = IF flow.toolsOk THEN "passed" ELSE "failed",
                  !.pc = IF flow.mode = "gui" THEN "ready"
                         ELSE IF flow.toolsOk THEN "source"
                         ELSE "exit"]
    /\ UNCHANGED <<mainVars, run, fn>>

\* The Start button: start_conversion reads the three fields.
FlowStartConversion ==
    /\ flow.pc = "ready"
    /\ flow' = [flow EXCEPT !.pc = "source", !.created = FALSE,
                             !.space = "none", !.override = "none"]
    /\ UNCHANGED <<mainVars, run, fn>>

\* run_batch: os.path.exists(args.source); run_interactive:
\* select_disk_interactive(); start_conversion: if not source.
FlowSource ==
    /\ flow.pc = "source"
    /\ \E ok \in BOOLEAN :
        flow' = [flow EXCEPT !.pc = IF ok THEN "name" ELSE FlowEnd]
    /\ UNCHANGED <<mainVars, run, fn>>

\* Variant: run_batch prints the message and goes on.
FlowName_BatchGoesOn ==
    /\ flow.pc = "name"
    /\ \E given \in FlowNames \cup {NoInput} :
        LET vm_name == IF flow.mode = "interactive" /\ given = << >>
                       THEN default_vm_name
                       ELSE given
            is_valid == validate_vm_name(vm_name).valid
        IN  IF given = NoInput \/ (flow.mode = "gui" /\ given = << >>)
            THEN /\ flow.mode # "batch"
                 /\ flow' = [flow EXCEPT !.pc = FlowEnd]
            ELSE flow' = [flow EXCEPT
                           !.name = vm_name,
                           !.rejected = @ \/ ~is_valid,
                           !.pc = IF is_valid \/ flow.mode = "batch"
                                  THEN "outdir"
                                  ELSE IF flow.mode = "interactive"
                                  THEN "name"
                                  ELSE FlowEnd]
    /\ UNCHANGED <<mainVars, run, fn>>

\* The name.  run_batch: validate_vm_name(args.name), return 1 if invalid.
\* get_vm_name_interactive: input().strip(), the default for an empty
\* line, validate_vm_name, ask again if invalid, None on EOF or Ctrl+C.
\* start_conversion: return if the field is empty, validate_vm_name,
\* error dialog and return if invalid.
FlowName ==
    /\ flow.pc = "name"
    /\ \E given \in FlowNames \cup {NoInput} :
        LET vm_name == IF flow.mode = "interactive" /\ given = << >>
                       THEN default_vm_name
                       ELSE given
            is_valid == validate_vm_name(vm_name).valid
        IN  IF given = NoInput \/ (flow.mode = "gui" /\ given = << >>)
            THEN /\ flow.mode # "batch"
                 /\ flow' = [flow EXCEPT !.pc = FlowEnd]
            ELSE flow' = [flow EXCEPT
                           !.name = vm_name,
                           !.rejected = @ \/ ~is_valid,
                           !.pc = IF is_valid THEN "outdir"
                                  ELSE IF flow.mode = "interactive"
                                  THEN "name"
                                  ELSE FlowEnd]
    /\ UNCHANGED <<mainVars, run, fn>>

\* The output directory.  run_batch: os.makedirs, return 1 on error.
\* get_output_dir_interactive: os.makedirs, ask again on error, None on
\* EOF or Ctrl+C.  start_conversion: return if the field is empty or the
\* disk is the system disk; nothing is created here.
FlowOutputDir ==
    /\ flow.pc = "outdir"
    /\ \E answer \in {"ok", "error", "none"} :
        /\ answer = "none" => flow.mode # "batch"
        /\ flow' = [flow EXCEPT
                      !.created = @ \/ (answer = "ok" /\ flow.mode # "gui"),
                      !.pc = CASE answer = "ok" -> "space"
                               [] answer = "error" /\ flow.mode = "interactive"
                                    -> "outdir"
                               [] OTHER -> FlowEnd]
    /\ UNCHANGED <<mainVars, run, fn>>

\* Disk sizes and free space the space check of a request can meet.
FlowSizes == {0, 4, MaxSize}
FlowFree == {0, 2, MaxSize + 2}

\* What the front end's space check comes to: not made (--skip-space-check),
\* or the result of its check_space_requirements / of the check inside
\* start_conversion.
SpaceResult(mode, skip, info, dirOk, free) ==
    CASE mode = "gui" -> GuiStartSpaceCheck(info, dirOk, free)
      [] mode = "batch" /\ skip -> "skipped"
      [] OTHER -> CliCheckSpaceRequirements(info, dirOk, free)

\* Variant: the result of the check is reported but never stops the request.
SpaceGate_Open(mode, r, force, yes) == "none"

\* What lets the request past a check that did not pass: nothing in
\* run_interactive (return 1), --force in run_batch, the answer to
\* "Continue anyway?" in start_conversion.  "stop" ends the request.
SpaceGate(mode, r, force, yes) ==
    IF r \in {"passed", "skipped"} THEN "none"
    ELSE CASE mode = "batch" /\ force -> "force"
           [] mode = "gui" /\ yes -> "yes"
           [] OTHER -> "stop"

\* The space check.  cli.py check_space_requirements: run_interactive
\* returns 1 when it fails; run_batch skips it with --skip-space-check and
\* goes on despite a failure with --force.  start_conversion: made only
\* when the size is known (check_output_space creates the directory); on
\* insufficient space the user decides.
FlowSpace ==
    /\ flow.pc = "space"
    /\ \E probeOk \in BOOLEAN, size \in FlowSizes, dirOk \in BOOLEAN,
          free \in FlowFree, skip \in BOOLEAN, force \in BOOLEAN,
          yes \in BOOLEAN :
        LET info == get_disk_info(probeOk, size)
            r == SpaceResult(flow.mode, skip, info, dirOk, free)
            gate == SpaceGate(flow.mode, r, force, yes)
        IN  flow' = [flow EXCEPT
                      !.created = @ \/ (flow.mode = "gui" /\ r # "skipped"
                                          /\ dirOk),
                      !.space = r,
                      !.override = IF gate = "stop" THEN "none" ELSE gate,
                      !.pc = IF gate = "stop" THEN FlowEnd ELSE "confirm"]
    /\ UNCHANGED <<mainVars, run, fn>>

\* confirm_conversion / askyesno (run_batch skips it with --yes); then
\* convert_disk or the worker thread calls create_vm_from_disk with the
\* name held.
FlowConfirm ==
    /\ flow.pc = "confirm"
    /\ \E yes \in BOOLEAN :
        flow' = [flow EXCEPT !.pc = IF yes THEN "convert" ELSE FlowEnd]
    /\ UNCHANGED <<mainVars, run, fn>>

NextFlow ==
    \/ FlowCheckPrerequisites
    \/ FlowStartConversion
    \/ FlowSource
    \/ FlowName
    \/ FlowOutputDir
    \/ FlowSpace
    \/ FlowConfirm

SpecFlow == InitFlow /\ [][NextFlow]_vars

-----------------------------------------------------------------------------
(* C18: only valid names reach the pipeline *)

C18_ValidNameState ==
    /\ flow.pc = "convert" => validate_vm_name(flow.name).valid
    /\ flow.pc \in {"outdir", "space", "confirm"} =>
          validate_vm_name(flow.name).valid
    /\ flow.created => validate_vm_name(flow.name).valid

C18_ValidNameStep ==
    \* a name is taken over only at the name step; an invalid one keeps the
    \* flow from going on and nothing has been created for the request
    /\ flow'.name # flow.name => flow.pc = "name"
    /\ (flow.pc = "name" /\ flow'.pc # "name" /\ flow'.pc # FlowEnd) =>
          (flow'.pc = "outdir" /\ validate_vm_name(flow'.name).valid)
    /\ (flow.pc = "name" /\ ~validate_vm_name(flow'.name).valid
          /\ flow'.name # flow.name) =>
          (~flow'.created /\ flow'.pc \in {"name", FlowEnd})

\* C18: in batch mode, interactive mode and the GUI, create_vm_from_disk is
\* reached only with a name that validate_vm_name accepted, and an invalid
\* name stops the flow before the output directory or a file is created.
C18_ValidName == []C18_ValidNameState /\ [][C18_ValidNameStep]_vars

C18_Witness ==
    /\ flow.pc = "convert"
    /\ flow.rejected
    /\ flow.mode = "gui"
    /\ flow.created

-----------------------------------------------------------------------------
(* C19: missing tools *)

\* C19: after a failed prerequisite check no front end reaches
\* create_vm_from_disk.
C19_NoConversionWithoutTools ==
    flow.prereq = "failed" => flow.pc # "convert"

-----------------------------------------------------------------------------
(* C20: the system disk *)

\* C20: with the root filesystem on a partition of disk D, a listed disk is
\* flagged exactly when it is /dev/D; when detection fails get_active_disk
\* returns None and nothing is flagged.
C20_FlagsSystemDiskOnly ==
    fn.op = "list_disks" =>
        /\ fn.mounts.disk # << >> =>
              /\ fn.active = {fn.mounts.disk}
              /\ fn.is_system <=> fn.device = Dev(fn.mounts.disk)
        /\ fn.mounts.disk = << >> =>
              /\ fn.active = None
              /\ ~fn.is_system

-----------------------------------------------------------------------------
(* C21: the base disk of a device name *)

-----------------------------------------------------------------------------
(* C30: leaving the GUI while a conversion runs *)

\* C30: when the application has terminated through the forced exit, the
\* worker has acted on the stop request: no external tool is alive and
\* neither the temporary raw image nor a partial final file is left.
C30_StoppedBeforeExit ==
    gui.exit = "forced" =>
        /\ \A c \in Calls, t \in Tools : procSt[c][t] # "alive"
        /\ ~raw
        /\ qcow # "partial"

-----------------------------------------------------------------------------
(* C23: the two tools of one call *)

\* The re-encode tool exists only after dd has exited with status zero, and
\* the two processes are never alive together.
C23_SequentialState ==
    \A c \in Calls :
        /\ procSt[c]["qemu"] # "none" =>
               /\ procSt[c]["dd"] = "exited"
               /\ procRc[c]["dd"] = RcOk
        /\ ~(procSt[c]["dd"] = "alive" /\ procSt[c]["qemu"] = "alive")

\* A tool becomes alive only by its one Popen statement, from never having
\* been launched, in a call that has not ended; a process that has exited
\* stays exited.
C23_SequentialStep ==
    \A c \in Calls, t \in Tools :
        /\ (procSt'[c][t] = "alive" /\ procSt[c][t] # "alive") =>
               /\ procSt[c][t] = "none"
               /\ pc[c] = (IF t = "dd" THEN "popen_dd" ELSE "popen_qemu")
               /\ result[c] = "none"
        /\ procSt[c][t] = "exited" => procSt'[c][t] = "exited"
        /\ pc[c] = "end" => pc'[c] = "end"

\* C23: within one call the two tools are strictly sequential and each is
\* launched at most once: qemu-img only after dd exited with status zero,
\* never both alive, nothing relaunched after a failure.
C23_Sequential == []C23_SequentialState /\ [][C23_SequentialStep]_vars

\* The re-encode tool is running after a duplication that took poll ticks.
C23_Witness ==
    /\ procSt[Main]["qemu"] = "alive"
    /\ procSt[Main]["dd"] = "exited"
    /\ PctCopy \in Reported(Main)

-----------------------------------------------------------------------------
(* C24: failures of the conversion in the command-line front end *)

\* C24: once convert_disk is over after a conversion that failed, it has
\* returned False with an ERROR entry in the session log; no exception has
\* left it.
C24_FailureHandled ==
    (Failed(Main) /\ cliPc \in {"returned", "raised"}) =>
        /\ cliPc = "returned"
        /\ cliReport = "error"

-----------------------------------------------------------------------------
(* C25: the space check gates the conversion *)

\* C25: a request that has gone past the space check towards the conversion
\* after the check reported insufficient space is a batch request with
\* --force or a GUI request whose user answered yes to the warning, never an
\* interactive one; a check that was not made is a batch request's
\* --skip-space-check or the GUI's unknown disk size.
C25_SpaceGate ==
    flow.pc \in {"confirm", "convert"} =>
        /\ flow.space \in {"failed", "warned"} =>
               \/ flow.mode = "batch" /\ flow.override = "force"
               \/ flow.mode = "gui" /\ flow.override = "yes"
        /\ flow.space = "skipped" => flow.mode # "interactive"
        /\ flow.space # "none"

\* A GUI conversion that starts after the user confirmed the warning.
C25_Witness ==
    /\ flow.pc = "convert"
    /\ flow.mode = "gui"
    /\ flow.space = "warned"
    /\ flow.override = "yes"

-----------------------------------------------------------------------------
(* One call whose tools write status output *)

\* The tools of the call have between nothing and MaxOutput units of status
\* output to write before they exit.
InitPipe ==
    /\ InitCall
    /\ cliPc = "off"
    /\ gui = GuiOff
    /\ run = RunOff
    /\ flow = FlowOff
    /\ fn = FnOff
    /\ \E nd \in 0..MaxOutput, nq \in 0..MaxOutput :
        pipeSt = [c \in Calls |->
                    IF c = Main
                    THEN [t \in Tools |->
                            [todo |-> IF t = "dd" THEN nd ELSE nq, buf |-> 0]]
                    ELSE PipeOff[c]]

\* The steps of the call and of its tools.
PipeProgress ==
    \/ Call(Main)
    \/ Pipeline(Main)
    \/ Environment(Main)
    \/ \E t \in Tools : ToolOutput(Main, t)

NextPipe ==
    \/ PipeProgress
    \/ RequestStop(Main)

\* The interpreter keeps running the call and the operating system keeps
\* running the tools: a step of theirs that can be taken is taken.  Whether
\* the stop flag is ever set is up to its owner.
SpecPipe == InitPipe /\ [][NextPipe]_vars /\ WF_vars(PipeProgress)

-----------------------------------------------------------------------------
(* Two callers with the same vm_name and output_path *)

\* raw_image_path and qcow2_path are derived from the arguments alone, so
\* both calls work on the same two files; nothing in create_vm_from_disk
\* takes a lock.  The stop flag of the first caller is the one that is set.
NextConc ==
    \/ \E c \in Calls : Call(c)
    \/ RequestStop(Main)
    \/ \E c \in Calls : Pipeline(c)
    \/ \E c \in Calls : Environment(c)

SpecConc == Init /\ [][NextConc]_vars

-----------------------------------------------------------------------------
(* C26: two calls on the same pair of files *)

\* The statements of a call that end it with a cleanup: the two stop
\* branches and the two nonzero-exit branches.
CleanupSites == {"dd_cancel", "dd_comm", "q_cancel", "q_comm"}

\* C26: the cancel or failure cleanup of a call removes the raw image, and
\* in the re-encode phase the final file too, whatever the other call is
\* doing with them: no state of the other call holds it back.
C26_SharedFiles ==
    [][\A c \in Calls :
          (pc[c] \in CleanupSites /\ result[c] = "none"
           /\ result'[c] \in {"cancelled", "failed"}) =>
              /\ ~raw'
              /\ pc[c] \in {"q_cancel", "q_comm"} => qcow' = "absent"]_vars

\* The first call was cancelled in its duplication phase after the second
\* call's dd had written the raw image; its cleanup removed that image, and
\* the second call's qemu-img is running without the file it reads.
C26_Witness ==
    /\ Cancelled(Main)
    /\ stopAt[Main].pc \in {"dd_poll", "dd_stop", "dd_cb50"}
    /\ procSt["c2"]["qemu"] = "alive"
    /\ PctConvert \in Reported("c2")
    /\ ~raw

-----------------------------------------------------------------------------
(* C27: termination without a stop request *)

\* C27: with tools that exit once they have written a finite amount of
\* status output, the call ends unless the stop flag is set.
C27_Terminates == <>(Ended(Main) \/ stop[Main])

\* C27, what holds instead: the call ends when no tool has more to write
\* than its pipe takes.
C27_TerminatesWithinPipe ==
    (\A t \in Tools : pipeSt[Main][t].todo + pipeSt[Main][t].buf <= PipeCap)
        ~> (Ended(Main) \/ stop[Main])

-----------------------------------------------------------------------------
(* C28: processes left behind *)

\* C28: when a call has ended, on whatever path, no process it launched
\* is still alive.
C28_NoProcessLeft ==
    \A c \in Calls :
        Ended(c) => \A t \in Tools : procSt[c][t] # "alive"

-----------------------------------------------------------------------------
(* C29: a final file that was there before the call *)

\* C29: the step that ends a call Failed or Cancelled leaves a final file
\* that was there before the call, and is still as it was, in place.
C29_KeepsPreExisting ==
    [][\A c \in Calls :
          (qcow = "pre" /\ result[c] = "none"
           /\ result'[c] \in {"failed", "cancelled"}) =>
              qcow' = "pre"]_vars

-----------------------------------------------------------------------------
(* C11: where the stop flag is read *)

\* The flag became true after qemu-img had exited.
StopAfterExit(c) == stopAt[c].pc # "none" /\ stopAt[c].qemu = "exited"

\* The flag became true after the loop condition process.poll() had seen
\* that exit, or before the poll that will see it: not between a poll that
\* returned None and the stop_flag() call of the same iteration.
StopAfterObservedExit(c) == StopAfterExit(c) /\ stopAt[c].pc # "q_stop"

\* C11 as stated: a request that becomes true after the re-encode process
\* has exited is never acted on (no terminate(), no Cancelled outcome).
C11_LateStopIgnored ==
    StopAfterExit(Main) =>
        /\ ~termSent[Main]["qemu"]
        /\ ~Cancelled(Main)

C11_StopCheckState ==
    \* acting on a request needs a launched duplication tool and a poll tick
    /\ (Cancelled(Main) \/ \E t \in Tools : termSent[Main][t]) =>
        /\ procSt[Main]["dd"] # "none"
        /\ PctStart \in Reported(Main)
    /\ Cancelled(Main) => \E t \in Tools : termSent[Main][t]
    \* a request made once the exit was (or is about to be) observed
    /\ StopAfterObservedExit(Main) =>
        /\ ~termSent[Main]["qemu"]
        /\ ~Cancelled(Main)
        /\ pc[Main] \notin {"q_stop", "q_wait", "q_cancel"}
        /\ (Ended(Main) /\ procRc[Main]["qemu"] = RcOk /\ Exists(qcow)
              /\ err[Main].class # "CallbackError") => Returned(Main)

C11_StopCheckStep ==
    \* the flag is read in the stop check of a tick and nowhere else
    /\ termSent'[Main] # termSent[Main] =>
        /\ stop[Main]
        /\ \/ pc[Main] = "dd_stop" /\ pc'[Main] = "dd_wait"
           \/ pc[Main] = "q_stop" /\ pc'[Main] = "q_wait"
    \* a stop check is entered from a poll that saw the process alive
    /\ (pc'[Main] = "dd_stop" /\ pc[Main] # "dd_stop") =>
        (pc[Main] = "dd_poll" /\ procSt[Main]["dd"] = "alive")
    /\ (pc'[Main] = "q_stop" /\ pc[Main] # "q_stop") =>
        (pc[Main] = "q_poll" /\ procSt[Main]["qemu"] = "alive")
    \* and is left through the sleep of that tick or through the cancel branch
    /\ (pc[Main] = "dd_stop" /\ pc'[Main] # "dd_stop") =>
        pc'[Main] = (IF stop[Main] THEN "dd_wait" ELSE "dd_cb50")
    /\ (pc[Main] = "q_stop" /\ pc'[Main] # "q_stop") =>
        pc'[Main] = (IF stop[Main] THEN "q_wait" ELSE "q_cb85")
    \* a late request leaves a complete final file where it is
    /\ (StopAfterObservedExit(Main) /\ procRc[Main]["qemu"] = RcOk) =>
        qcow' = qcow

\* C11 (amended): the stop flag is read only in the stop check of a poll
\* tick, entered after a poll that saw the process alive; a request made
\* before dd is launched is acted on in the first tick at the earliest; a
\* request made after the loop has (or is about to have) seen the exit of
\* qemu-img is never acted on and the final file is kept.
C11_StopCheck == []C11_StopCheckState /\ [][C11_StopCheckStep]_vars

C11_Witness ==
    /\ Returned(Main)
    /\ StopAfterObservedExit(Main)
    /\ stop[Main]
    /\ Exists(qcow)
    /\ ~raw

=============================================================================
